---- MODULE Spec2Model ----
(***************************************************************************)
(* Model of the wealthz ETL pipeline (src/wealthz): the DuckLake loader    *)
(* and its replication strategies (loaders.py), the pipeline definition    *)
(* (model.py) and the connection manager (loaders.py).                     *)
(*                                                                         *)
(* A table or a batch is a multiset of rows, written as a function from    *)
(* Rows to the number of copies.  The connection is modelled by what the   *)
(* SQL templates of loaders.py do on such tables: statements issued while  *)
(* a transaction is open change the transaction's working copy, which      *)
(* commit publishes and rollback discards; statements issued with no open  *)
(* transaction are auto-committed.                                         *)
(***************************************************************************)
EXTENDS Integers, Sequences, FiniteSets, TLC

\* ------------------------------------------------------------------ bounds
MaxDest == 2
MaxBatch == 2
MaxLoads == 2

\* ------------------------------------------------------- rows and tables
Null == "<null>"
Ids == {"1", "2"}
Names == {"A", "B"}
ColumnNames == <<"id", "name">>
Rows == [id : Ids \cup {Null}, name : Names]

RECURSIVE SumOver(_, _)
SumOver(t, S) ==
    IF S = {} THEN 0
    ELSE LET r == CHOOSE x \in S : TRUE IN t[r] + SumOver(t, S \ {r})

Card(t) == SumOver(t, Rows)
EmptyTable == [r \in Rows |-> 0]
Tables(n) == {t \in [Rows -> 0..n] : Card(t) <= n}
Times(n, t) == [r \in Rows |-> n * t[r]]
Plus(t, u) == [r \in Rows |-> t[r] + u[r]]

\* ----------------------------------------------------- model.py: pipeline
ReplicationType == {"append", "full", "incremental"}
RawReplications == ReplicationType \cup {"unknown"}
KeyLists == {<<>>, <<"id">>, <<"id", "name">>, <<"zz">>}
RawConfigs ==
    {c \in [replication : RawReplications, primary_keys : KeyLists] :
        c.replication = "incremental" \/ c.primary_keys = <<"id">>}

NoPipeline == [name |-> "", columns |-> <<>>, replication |-> "", primary_keys |-> <<>>]
NoError == [type |-> "", msg |-> <<>>]
ValidationError(v) == [type |-> "ValidationError", msg |-> <<"replication", v>>]
DbError(op) == [type |-> "Error", msg |-> <<op>>]

Range(s) == {s[i] : i \in DOMAIN s}

\* Table.column_names
column_names(p) == p.columns

\* ---------------------------------------------------- loaders.py: errors
UnknownReplicationStrategy(replication_type) ==
    [type |-> "UnknownReplicationStrategy",
     msg |-> <<"Unknown replication strategy: ", replication_type>>]

\* ------------------------------------------- loaders.py: SQL statements
\* (k1, ..) IN (SELECT k1, .. FROM staging): SQL equality, so a NULL key
\* component matches nothing.
KeyMatch(r, s, pks) ==
    \A i \in DOMAIN pks : r[pks[i]] # Null /\ s[pks[i]] # Null /\ r[pks[i]] = s[pks[i]]

\* an INSERT that leaves out the rows the table already holds
InsertIntoMissing(table, stg) ==
    [r \in Rows |-> IF table[r] > 0 THEN table[r] ELSE stg[r]]

\* INSERT_TPL_STMT
InsertInto(table, stg) == [r \in Rows |-> table[r] + stg[r]]

\* TRUNCATE_TPL_STMT
Truncate(table) == EmptyTable

\* a DELETE that matches on every column instead of the primary keys
DeleteWhereAllColumns(table, stg, pks) ==
    [r \in Rows |-> IF stg[r] > 0 THEN 0 ELSE table[r]]

\* a DELETE that matches no row
DeleteWhereNothing(table, stg, pks) == table

\* DELETE_TPL_STMT
DeleteWhere(table, stg, pks) ==
    [r \in Rows |->
        IF \E s \in Rows : stg[s] > 0 /\ KeyMatch(r, s, pks) THEN 0 ELSE table[r]]

\* The engine rejects DELETE_TPL_STMT built from an empty key list ("WHERE ()
\* IN (SELECT  FROM staging)") or from a key that is no column of the table.
DeleteAccepted(p) ==
    /\ p.primary_keys # <<>>
    /\ Range(p.primary_keys) \subseteq Range(column_names(p))

StatementAccepted(stmt, p) == stmt = "DELETE" => DeleteAccepted(p)

ExecuteStatement(stmt, table, stg, p) ==
    CASE stmt = "INSERT" -> InsertInto(table, stg)
      [] stmt = "TRUNCATE" -> Truncate(table)
      [] stmt = "DELETE" -> DeleteWhere(table, stg, p.primary_keys)

\* ------------------------------------ loaders.py: replication strategies
\* a Full strategy that inserts without truncating
ReplicateNoTruncate(strategy_class) ==
    CASE strategy_class = "DuckLakeAppendReplicationStrategy" -> <<"INSERT">>
      [] strategy_class = "DuckLakeFullReplicationStrategy" -> <<"INSERT">>
      [] strategy_class = "DuckLakeIncrementalReplicationStrategy" -> <<"DELETE", "INSERT">>

\* an Append strategy that truncates before it inserts
ReplicateAppendTruncates(strategy_class) ==
    CASE strategy_class = "DuckLakeAppendReplicationStrategy" -> <<"TRUNCATE", "INSERT">>
      [] strategy_class = "DuckLakeFullReplicationStrategy" -> <<"TRUNCATE", "INSERT">>
      [] strategy_class = "DuckLakeIncrementalReplicationStrategy" -> <<"DELETE", "INSERT">>

\* a Full strategy that inserts before it truncates
ReplicateInsertFirst(strategy_class) ==
    CASE strategy_class = "DuckLakeAppendReplicationStrategy" -> <<"INSERT">>
      [] strategy_class = "DuckLakeFullReplicationStrategy" -> <<"INSERT", "TRUNCATE">>
      [] strategy_class = "DuckLakeIncrementalReplicationStrategy" -> <<"DELETE", "INSERT">>

\* replicate() of the three strategy classes: the statements it executes
Replicate(strategy_class) ==
    CASE strategy_class = "DuckLakeAppendReplicationStrategy" -> <<"INSERT">>
      [] strategy_class = "DuckLakeFullReplicationStrategy" -> <<"TRUNCATE", "INSERT">>
      [] strategy_class = "DuckLakeIncrementalReplicationStrategy" -> <<"DELETE", "INSERT">>

REPLICATION_STRATEGY_MAP ==
    [rt \in ReplicationType |->
        CASE rt = "full" -> "DuckLakeFullReplicationStrategy"
          [] rt = "append" -> "DuckLakeAppendReplicationStrategy"
          [] rt = "incremental" -> "DuckLakeIncrementalReplicationStrategy"]

NoStrategy == "None"

\* a lookup that falls back to Append instead of raising
get_replication_strategy_default_append(p) ==
    IF p.replication \in DOMAIN REPLICATION_STRATEGY_MAP
    THEN [raised |-> FALSE, strategy |-> REPLICATION_STRATEGY_MAP[p.replication],
          error |-> NoError]
    ELSE [raised |-> FALSE, strategy |-> "DuckLakeAppendReplicationStrategy",
          error |-> NoError]

\* DuckLakeLoader.get_replication_strategy
get_replication_strategy(p) ==
    IF p.replication \in DOMAIN REPLICATION_STRATEGY_MAP
    THEN [raised |-> FALSE, strategy |-> REPLICATION_STRATEGY_MAP[p.replication],
          error |-> NoError]
    ELSE [raised |-> TRUE, strategy |-> NoStrategy,
          error |-> UnknownReplicationStrategy(p.replication)]


\* ------------------------------------- loaders.py: DuckLakeConnManager
None == "<None>"

\* settings.py: StorageSettings, in field order
StorageFields == <<"type", "access_key_id", "secret_access_key", "data_path",
                   "endpoint", "region", "url_style", "use_ssl">>
OptionalFields == {"endpoint", "region", "url_style", "use_ssl"}
StorageTypes == {"s3", "gcs", "azure"}
StorageSettings ==
    {st \in [Range(StorageFields) -> StorageTypes \cup {"v", None}] :
        /\ st["type"] \in StorageTypes
        /\ \A k \in Range(StorageFields) \ {"type"} :
              st[k] \in (IF k \in OptionalFields THEN {"v", None} ELSE {"v"})}
SetupPaths == {"", "setup.sql"}

EXTENSIONS == <<[name |-> "ducklake", source |-> "core_nightly"],
                [name |-> "postgres", source |-> "core"]>>

\* EXT_INSTALL_TPL_STMT, EXT_LOAD_TPL_STMT
ExtInstallStmt(ext) == <<"INSTALL", ext.name, ext.source>>
ExtLoadStmt(ext) == <<"LOAD", ext.name>>

\* DuckLakeConnManager.configure_s3_storage: one SET per storage field that is
\* neither type nor data_path nor None
RECURSIVE S3Statements(_, _)
S3Statements(st, fields) ==
    IF fields = <<>> THEN <<>>
    ELSE LET key == Head(fields) IN
         (IF ~(key \in {"type", "data_path"} \/ st[key] = None)
          THEN <<<<"SET", key, st[key]>>>> ELSE <<>>)
         \o S3Statements(st, Tail(fields))

configure_s3_storage(st) == S3Statements(st, StorageFields)

\* DuckLakeConnManager.configure_gcs_storage: CREATE_SECRET_TPL_STMT
configure_gcs_storage(st) ==
    <<<<"CREATE OR REPLACE SECRET", st["access_key_id"], st["secret_access_key"]>>>>

NotImplementedError == [type |-> "NotImplementedError", msg |-> <<>>]

\* a configure_storage that skips an unknown storage type instead of raising
configure_storage_skip_unknown(st) ==
    CASE st["type"] = "s3" -> [raised |-> FALSE, statements |-> configure_s3_storage(st)]
      [] st["type"] = "gcs" -> [raised |-> FALSE, statements |-> configure_gcs_storage(st)]
      [] OTHER -> [raised |-> FALSE, statements |-> <<>>]

\* DuckLakeConnManager.configure_storage: STORAGE_SETUP_MAP and its lookup
configure_storage(st) ==
    CASE st["type"] = "s3" -> [raised |-> FALSE, statements |-> configure_s3_storage(st)]
      [] st["type"] = "gcs" -> [raised |-> FALSE, statements |-> configure_gcs_storage(st)]
      [] OTHER -> [raised |-> TRUE, statements |-> <<>>]

\* a configure_catalog that switches to the lake before it attaches it
configure_catalog_use_first(stg) ==
    <<<<"USE", stg.name>>, <<"ATTACH", stg.name, stg.storage["data_path"]>>>>

\* DuckLakeConnManager.configure_catalog: ATTACH_TPL_STMT, USE_LAKE_TPL_STMT
configure_catalog(stg) ==
    <<<<"ATTACH", stg.name, stg.storage["data_path"]>>, <<"USE", stg.name>>>>

\* ------------------------------------------------- values of a DataFrame
\* A string is the sequence of its characters. A Series has one dtype, and a
\* value of any dtype may be null.
MaxLen == 2
MaxTransforms == 2

Chars(alphabet, n) == UNION {[1..k -> alphabet] : k \in 0..n}

\* pl.String, pl.Int32, pl.Datetime
DTypes == {"str", "i32", "datetime"}
NullValue == [null |-> TRUE, v |-> <<>>]
Val(s) == [null |-> FALSE, v |-> s]

Lowers == <<"a", "d", "e", "h", "l", "o", "r", "w">>
Uppers == <<"A", "D", "E", "H", "L", "O", "R", "W">>
Digits == <<"0", "1", "2", "3", "4", "5", "6", "7", "8", "9">>
Whitespace == {" "}

IndexIn(c, seq) == CHOOSE i \in DOMAIN seq : seq[i] = c
IsDigit(c) == c \in Range(Digits)
DigitValue(c) == IndexIn(c, Digits) - 1

\* str.to_uppercase, str.to_lowercase
to_uppercase(s) ==
    [i \in DOMAIN s |-> IF s[i] \in Range(Lowers) THEN Uppers[IndexIn(s[i], Lowers)] ELSE s[i]]
to_lowercase(s) ==
    [i \in DOMAIN s |-> IF s[i] \in Range(Uppers) THEN Lowers[IndexIn(s[i], Uppers)] ELSE s[i]]

\* str.strip_chars(): whitespace is removed at both ends
RECURSIVE strip_start(_)
strip_start(s) ==
    IF s # <<>> /\ Head(s) \in Whitespace THEN strip_start(Tail(s)) ELSE s
RECURSIVE strip_end(_)
strip_end(s) ==
    IF s # <<>> /\ s[Len(s)] \in Whitespace THEN strip_end(SubSeq(s, 1, Len(s) - 1)) ELSE s
strip_chars(s) == strip_end(strip_start(s))

\* str.replace_all(pattern, replacement, literal=False) for a pattern that is
\* one character without a meaning in a regular expression
RECURSIVE replace_all(_, _, _)
replace_all(s, pattern, replacement) ==
    IF s = <<>> THEN <<>>
    ELSE (IF Head(s) = pattern THEN replacement ELSE <<Head(s)>>)
         \o replace_all(Tail(s), pattern, replacement)

\* str.split(delimiter) for a delimiter of one character: the list of parts
RECURSIVE split(_, _)
split(s, delimiter) ==
    IF \A i \in DOMAIN s : s[i] # delimiter THEN <<s>>
    ELSE LET k == CHOOSE i \in DOMAIN s :
                      s[i] = delimiter /\ \A j \in 1..(i - 1) : s[j] # delimiter
         IN <<SubSeq(s, 1, k - 1)>> \o split(SubSeq(s, k + 1, Len(s)), delimiter)

\* list.get(index, null_on_oob=True): a negative index counts from the end
list_get(parts, index) ==
    LET at == IF index >= 0 THEN index + 1 ELSE Len(parts) + index + 1 IN
    IF at \in DOMAIN parts THEN Val(parts[at]) ELSE NullValue

\* str.slice(start, length) for start >= 0; length None is "to the end"
str_slice(s, start, length) ==
    LET last == IF length = None THEN Len(s)
                ELSE IF start + length < Len(s) THEN start + length ELSE Len(s)
    IN SubSeq(s, start + 1, last)

\* the decimal digits of a natural number, and the number they denote
RECURSIVE DigitsOf(_)
DigitsOf(n) == IF n < 10 THEN <<Digits[n + 1]>> ELSE DigitsOf(n \div 10) \o <<Digits[(n % 10) + 1]>>
RECURSIVE NumberOf(_)
NumberOf(s) ==
    IF s = <<>> THEN 0 ELSE 10 * NumberOf(SubSeq(s, 1, Len(s) - 1)) + DigitValue(s[Len(s)])

\* ----------------------------------------------------- the transform engine
\* model.py, lines 32-40 and 43-51
ColumnType == {"string", "integer", "long", "float", "double", "boolean", "date",
               "timestamp"}
TransformType == {"cast", "trim", "upper", "lower", "regex_replace", "split",
                  "substring", "date_format"}

CastTransform(target_type) == [type |-> "cast", target_type |-> target_type]
TrimTransform == [type |-> "trim"]
UpperTransform == [type |-> "upper"]
LowerTransform == [type |-> "lower"]
RegexReplaceTransform(pattern, replacement) ==
    [type |-> "regex_replace", pattern |-> pattern, replacement |-> replacement]
SplitTransform(delimiter, index) ==
    [type |-> "split", delimiter |-> delimiter, index |-> index]
SubstringTransform(start, length) ==
    [type |-> "substring", start |-> start, length |-> length]
DateFormatTransform(input_format) == [type |-> "date_format", input_format |-> input_format]

\* CastColumnTransform.TYPE_MAPPING, for the targets the model casts to
TYPE_MAPPING == [t \in {"string", "integer"} |-> IF t = "string" THEN "str" ELSE "i32"]

Series(dtype, values) == [dtype |-> dtype, values |-> values]
NoSeries == Series("str", <<>>)
Returned(series) == [raised |-> FALSE, error |-> NoError, series |-> series]
Raised(e) == [raised |-> TRUE, error |-> e, series |-> NoSeries]

\* the errors polars raises while it evaluates an expression
ColumnNotFoundError(name) == [type |-> "ColumnNotFoundError", msg |-> <<name>>]
SchemaError(dtype) == [type |-> "SchemaError", msg |-> <<"expected String", dtype>>]
InvalidOperationError(from, to) ==
    [type |-> "InvalidOperationError", msg |-> <<"conversion failed", from, to>>]

\* an operation of the str namespace over a Series: nulls stay null, and a
\* Series of another dtype is refused
StrOp(series, Op(_)) ==
    IF series.dtype # "str" THEN Raised(SchemaError(series.dtype))
    ELSE Returned(Series("str",
            [i \in DOMAIN series.values |->
                IF series.values[i].null THEN NullValue ELSE Op(series.values[i].v)]))

\* Int32 holds -2^31 .. 2^31 - 1
Int32Max == 2147483647

\* strict conversion of one string to Int32
ParsesInt32(s) ==
    /\ s # <<>>
    /\ \A i \in DOMAIN s : IsDigit(s[i])
    /\ NumberOf(s) <= Int32Max

\* "%Y-%m-%d": the only input_format of the model
DateFormats == {"%Y-%m-%d"}
IsLeap(y) == (y % 4 = 0 /\ y % 100 # 0) \/ y % 400 = 0
DaysIn(y, m) ==
    IF m = 2 THEN (IF IsLeap(y) THEN 29 ELSE 28)
    ELSE IF m \in {4, 6, 9, 11} THEN 30 ELSE 31
ParsesDate(s) ==
    /\ Len(s) = 10
    /\ s[5] = "-" /\ s[8] = "-"
    /\ \A i \in {1, 2, 3, 4, 6, 7, 9, 10} : IsDigit(s[i])
    /\ LET y == NumberOf(SubSeq(s, 1, 4))
           m == NumberOf(SubSeq(s, 6, 7))
           d == NumberOf(SubSeq(s, 9, 10))
       IN m \in 1..12 /\ d \in 1..DaysIn(y, m)

\* a datetime rendered by a cast to String
DatetimeText(v) == v \o <<" ", "0", "0", ":", "0", "0", ":", "0", "0", ".", "0", "0", "0",
                          "0", "0", "0">>

\* CastColumnTransform.apply: expr.cast(_type), strict
CastValue(v, from, to) ==
    CASE from = to -> Val(v)
      [] from = "str" /\ to = "i32" -> Val(DigitsOf(NumberOf(v)))
      [] from = "i32" /\ to = "str" -> Val(v)
      [] from = "datetime" /\ to = "str" -> Val(DatetimeText(v))
CastFails(v, from, to) ==
    \/ from = "str" /\ to = "i32" /\ ~ParsesInt32(v)
    \/ from = "datetime" /\ to = "i32"    \* microseconds since 1970 overflow Int32
CastColumnTransform_apply(series, transform) ==
    LET to == TYPE_MAPPING[transform.target_type]
        vs == series.values
    IN IF \E i \in DOMAIN vs : ~vs[i].null /\ CastFails(vs[i].v, series.dtype, to)
       THEN Raised(InvalidOperationError(series.dtype, to))
       ELSE Returned(Series(to,
               [i \in DOMAIN vs |->
                   IF vs[i].null THEN NullValue ELSE CastValue(vs[i].v, series.dtype, to)]))

\* TrimColumnTransform.apply
TrimColumnTransform_apply(series, transform) ==
    StrOp(series, LAMBDA v : Val(strip_chars(v)))

\* UpperColumnTransform.apply
UpperColumnTransform_apply(series, transform) ==
    StrOp(series, LAMBDA v : Val(to_uppercase(v)))

\* LowerColumnTransform.apply
LowerColumnTransform_apply(series, transform) ==
    StrOp(series, LAMBDA v : Val(to_lowercase(v)))

\* RegexReplaceColumnTransform.apply
RegexReplaceColumnTransform_apply(series, transform) ==
    StrOp(series, LAMBDA v : Val(replace_all(v, transform.pattern, transform.replacement)))

\* a Split that raises for an index past the last part
SplitColumnTransform_apply_strict(series, transform) ==
    IF /\ series.dtype = "str"
       /\ \E i \in DOMAIN series.values :
             /\ ~series.values[i].null
             /\ list_get(split(series.values[i].v, transform.delimiter), transform.index).null
    THEN Raised([type |-> "ComputeError", msg |-> <<"get index is out of bounds">>])
    ELSE StrOp(series, LAMBDA v : list_get(split(v, transform.delimiter), transform.index))

\* SplitColumnTransform.apply
SplitColumnTransform_apply(series, transform) ==
    StrOp(series, LAMBDA v : list_get(split(v, transform.delimiter), transform.index))

\* SubstringColumnTransform.apply
SubstringColumnTransform_apply(series, transform) ==
    StrOp(series, LAMBDA v : Val(str_slice(v, transform.start, transform.length)))

\* a DateFormat that turns an unparsable value into null (strict=False)
DateFormatColumnTransform_apply_lenient(series, transform) ==
    IF series.dtype # "str" THEN Raised(SchemaError(series.dtype))
    ELSE Returned(Series("datetime",
            [i \in DOMAIN series.values |->
                IF series.values[i].null \/ ~ParsesDate(series.values[i].v)
                THEN NullValue ELSE series.values[i]]))

\* DateFormatColumnTransform.apply: expr.str.to_datetime(input_format), strict
DateFormatColumnTransform_apply(series, transform) ==
    LET vs == series.values IN
    IF series.dtype # "str" THEN Raised(SchemaError(series.dtype))
    ELSE IF \E i \in DOMAIN vs : ~vs[i].null /\ ~ParsesDate(vs[i].v)
    THEN Raised(InvalidOperationError("str", "datetime"))
    ELSE Returned(Series("datetime", vs))

UnknownColumnTransformError(transform_type) ==
    [type |-> "UnknownColumnTransformError",
     msg |-> <<"Unknown transform type: ", transform_type>>]

\* ColumnTransformer.COLUMN_TRANSFORM_MAP and get_column_transform, applied
apply(series, transform) ==
    CASE transform.type = "cast" -> CastColumnTransform_apply(series, transform)
      [] transform.type = "trim" -> TrimColumnTransform_apply(series, transform)
      [] transform.type = "upper" -> UpperColumnTransform_apply(series, transform)
      [] transform.type = "lower" -> LowerColumnTransform_apply(series, transform)
      [] transform.type = "regex_replace" -> RegexReplaceColumnTransform_apply(series, transform)
      [] transform.type = "split" -> SplitColumnTransform_apply(series, transform)
      [] transform.type = "substring" -> SubstringColumnTransform_apply(series, transform)
      [] transform.type = "date_format" -> DateFormatColumnTransform_apply(series, transform)
      [] OTHER -> Raised(UnknownColumnTransformError(transform.type))

\* a DataFrame is the sequence of its columns, each a name and a Series of
\* the same length
Column(name, type, transforms) == [name |-> name, type |-> type, transforms |-> transforms]
FrameColumn(name, series) == [name |-> name, series |-> series]
NoFrame == <<[name |-> "<no frame>", series |-> NoSeries]>>
frame_columns(df) == [i \in DOMAIN df |-> df[i].name]
HasColumn(df, name) == \E i \in DOMAIN df : df[i].name = name
\* pl.col(name), evaluated over a frame that has the column
col(df, name) == df[CHOOSE i \in DOMAIN df : df[i].name = name].series

\* a fold that applies the transforms from the last to the first
RECURSIVE fold_transforms_reversed(_, _)
fold_transforms_reversed(res, transforms) ==
    IF res.raised \/ transforms = <<>> THEN res
    ELSE fold_transforms_reversed(apply(res.series, transforms[Len(transforms)]),
                                  SubSeq(transforms, 1, Len(transforms) - 1))

\* ColumnTransformer.build_column_expression, lines 158-160: the loop over
\* column.transforms, each applied to the expression built so far
RECURSIVE fold_transforms(_, _)
fold_transforms(res, transforms) ==
    IF res.raised \/ transforms = <<>> THEN res
    ELSE fold_transforms(apply(res.series, Head(transforms)), Tail(transforms))

\* ColumnTransformer.build_column_expression, evaluated over df
build_column_expression(column, df) ==
    IF ~HasColumn(df, column.name) THEN Raised(ColumnNotFoundError(column.name))
    ELSE fold_transforms(Returned(col(df, column.name)), column.transforms)

\* a transform that selects also when no column is declared: select([]) gives
\* a frame without columns
ColumnTransformer_transform_select_always(columns, df) ==
    LET res == [i \in DOMAIN columns |-> build_column_expression(columns[i], df)]
        failed == {i \in DOMAIN columns : res[i].raised}
    IN IF failed # {}
       THEN [raised |-> TRUE, errors |-> {res[i].error : i \in failed}, df |-> NoFrame]
       ELSE [raised |-> FALSE, errors |-> {},
             df |-> [i \in DOMAIN columns |-> FrameColumn(columns[i].name, res[i].series)]]

\* ColumnTransformer.transform: df.select(expressions). A column the frame
\* lacks is found while the query is planned, before any expression is
\* evaluated, and the first such expression is the one reported; of the
\* expressions that fail while they are evaluated, any may be the one reported.
ColumnTransformer_transform(columns, df) ==
    IF columns = <<>> THEN [raised |-> FALSE, errors |-> {}, df |-> df]
    ELSE
    LET res == [i \in DOMAIN columns |-> build_column_expression(columns[i], df)]
        missing == {i \in DOMAIN columns : ~HasColumn(df, columns[i].name)}
        failed == {i \in DOMAIN columns : res[i].raised}
    IN IF missing # {}
       THEN LET first == CHOOSE i \in missing : \A j \in missing : i <= j
            IN [raised |-> TRUE, errors |-> {res[first].error}, df |-> NoFrame]
       ELSE IF failed # {}
       THEN [raised |-> TRUE, errors |-> {res[i].error : i \in failed}, df |-> NoFrame]
       ELSE [raised |-> FALSE, errors |-> {},
             df |-> [i \in DOMAIN columns |-> FrameColumn(columns[i].name, res[i].series)]]

\* NoopTransformer.transform
NoopTransformer_transform(df) == [raised |-> FALSE, errors |-> {}, df |-> df]

\* ETLPipeline.has_transforms
has_transforms(p) == \E i \in DOMAIN p.columns : p.columns[i].transforms # <<>>

\* a factory that builds a ColumnTransformer for every pipeline
TransformerFactory_create_always_column(p) == "ColumnTransformer"

\* TransformerFactory.create
TransformerFactory_create(p) ==
    IF has_transforms(p) THEN "ColumnTransformer" ELSE "NoopTransformer"

\* Transformer.transform of the transformer the factory created
transform(transformer_class, p, df) ==
    IF transformer_class = "ColumnTransformer" THEN ColumnTransformer_transform(p.columns, df)
    ELSE NoopTransformer_transform(df)

\* ------------------------------------------------------- the schema syncer
\* DuckLakeSchemaSyncer.DUCKDB_TYPES_MAP
DUCKDB_TYPES_MAP == [string |-> "varchar"]

\* an extract_duck_type that knows no special case
extract_duck_type_identity(column) == column.type

\* DuckLakeSchemaSyncer.extract_duck_type: DUCKDB_TYPES_MAP.get(type, type)
extract_duck_type(column) ==
    IF column.type \in DOMAIN DUCKDB_TYPES_MAP THEN DUCKDB_TYPES_MAP[column.type]
    ELSE column.type

\* str.upper() over the names of the SQL types
upper(duck_type) ==
    CASE duck_type = "varchar" -> "VARCHAR"
      [] duck_type = "string" -> "STRING"
      [] duck_type = "integer" -> "INTEGER"
      [] duck_type = "long" -> "LONG"
      [] duck_type = "float" -> "FLOAT"
      [] duck_type = "double" -> "DOUBLE"
      [] duck_type = "boolean" -> "BOOLEAN"
      [] duck_type = "date" -> "DATE"
      [] duck_type = "timestamp" -> "TIMESTAMP"

\* DuckLakeSchemaSyncer.sync, lines 50-51: name and SQL type of each column
columns_def(p) ==
    [i \in DOMAIN p.columns |-> <<p.columns[i].name, upper(extract_duck_type(p.columns[i]))>>]

\* a template that replaces the table
CREATE_OR_REPLACE_TABLE_TPL_STMT(table_name, cols) ==
    [verb |-> "CREATE OR REPLACE TABLE", table_name |-> table_name, columns_def |-> cols]

\* DuckLakeSchemaSyncer.CREATE_TABLE_TPL_STMT
CREATE_TABLE_TPL_STMT(table_name, cols) ==
    [verb |-> "CREATE TABLE IF NOT EXISTS", table_name |-> table_name, columns_def |-> cols]

\* the destination table in the catalog
NoTable == [exists |-> FALSE, columns |-> <<>>, rows |-> <<>>]
NewTable(cols) == [exists |-> TRUE, columns |-> cols, rows |-> <<>>]
CatalogException(msg) == [type |-> "CatalogException", msg |-> <<msg>>]
ParserException(msg) == [type |-> "ParserException", msg |-> <<msg>>]

\* what the engine does with a CREATE TABLE statement: IF NOT EXISTS leaves a
\* table of that name as it is, whatever its columns; OR REPLACE drops it
ExecuteCreate(tbl, stmt) ==
    IF stmt.columns_def = <<>>
    THEN [raised |-> TRUE, error |-> ParserException("no columns"), table |-> tbl]
    ELSE IF ~tbl.exists \/ stmt.verb = "CREATE OR REPLACE TABLE"
    THEN [raised |-> FALSE, error |-> NoError, table |-> NewTable(stmt.columns_def)]
    ELSE IF stmt.verb = "CREATE TABLE IF NOT EXISTS"
    THEN [raised |-> FALSE, error |-> NoError, table |-> tbl]
    ELSE [raised |-> TRUE, error |-> CatalogException("already exists"), table |-> tbl]

\* DuckLakeSchemaSyncer.sync: the query is built and executed; ok is whether
\* the connection carried the statement to the engine
sync(p, tbl, ok) ==
    LET query == CREATE_TABLE_TPL_STMT(p.name, columns_def(p)) IN
    IF ok THEN [query |-> query] @@ ExecuteCreate(tbl, query)
    ELSE [query |-> query, raised |-> TRUE, error |-> DbError("CREATE"), table |-> tbl]

\* ---------------------------------------------------------- the pipelines
MaxColumns == 2
MaxRows == 1
MaxSyncs == 2

DeclaredNames == {"a", "b"}
Destinations == {None, "ducklake", "gsheet"}

\* sequences without repetition, of at most n elements of S
DistinctSeqs(S, n) ==
    {s \in UNION {[1..k -> S] : k \in 0..n} : \A i, j \in DOMAIN s : s[i] = s[j] => i = j}

Pipeline(columns, replication, destination) ==
    [name |-> "t", columns |-> columns, replication |-> replication,
     primary_keys |-> <<"a">>, destination |-> destination]

\* lists of columns with names from DeclaredNames, types from types and
\* transform lists from lists
ColumnLists(types, lists) ==
    UNION {{[i \in DOMAIN names |-> Column(names[i], ts[i], ls[i])] :
                ts \in [DOMAIN names -> types], ls \in [DOMAIN names -> lists]} :
           names \in DistinctSeqs(DeclaredNames, MaxColumns)}

\* the strings the engine is tried on: every string of at most MaxLen
\* characters of a small alphabet, and the texts of the tests
Alphabet == {" ", ",", "a", "A", "1"}
HelloWorld == <<" ", " ", "h", "e", "l", "l", "o", ",", "w", "o", "r", "l", "d", " ", " ">>
ExampleTexts ==
    {HelloWorld, <<"a", ",", "b">>, <<"s", "i", "n", "g", "l", "e">>,
     <<"i", "n", "v", "a", "l", "i", "d">>,
     <<"2", "0", "2", "4", "-", "0", "1", "-", "1", "5">>}
Texts == Chars(Alphabet, MaxLen) \cup ExampleTexts
Values == {Val(s) : s \in Texts} \cup {NullValue}

\* the transforms the engine is tried with
SplitIndexes == {-1, 0, 1, 5}
Transforms ==
    {CastTransform("integer"), CastTransform("string"), TrimTransform, UpperTransform,
     LowerTransform, RegexReplaceTransform(",", <<>>), SubstringTransform(1, None),
     DateFormatTransform("%Y-%m-%d")}
    \cup {SplitTransform(",", i) : i \in SplitIndexes}
ExampleTransforms == <<UpperTransform, TrimTransform, SplitTransform(",", 0)>>
TransformLists ==
    UNION {[1..k -> Transforms] : k \in 0..MaxTransforms} \cup {ExampleTransforms}

\* the frames a fetcher hands to the runner: columns a and b, and a column x
\* no pipeline declares
RunValues == {Val(<<"1">>), Val(<<"a">>), NullValue}
FrameNames == {<<"a">>, <<"b">>, <<"a", "b">>, <<"b", "a">>, <<"a", "x">>}
FramesOf(names, values, rows) ==
    {[i \in DOMAIN names |-> FrameColumn(names[i], Series("str", cells[i]))] :
        cells \in [DOMAIN names -> [1..rows -> values]]}
Frames == UNION {FramesOf(names, RunValues, n) : names \in FrameNames, n \in 0..MaxRows}
RunTransformLists ==
    {<<>>, <<UpperTransform>>, <<CastTransform("integer")>>,
     <<DateFormatTransform("%Y-%m-%d")>>}
Height(df) == IF df = <<>> THEN 0 ELSE Len(df[1].series.values)

\* --------------------------------------------- the loaders, as the runner
\* sees them: one call of load
TableNames(tbl) == {tbl.columns[i][1] : i \in DOMAIN tbl.columns}
DeclaredSet(p) == {p.columns[i].name : i \in DOMAIN p.columns}

\* the engine accepts the statements of the strategy: the table exists and it
\* and the staging relation have every column the statements name
LoadAccepted(p, tbl, df) ==
    /\ tbl.exists
    /\ p.columns # <<>>
    /\ \A c \in DeclaredSet(p) : HasColumn(df, c) /\ c \in TableNames(tbl)
    /\ p.replication = "incremental" =>
          /\ p.primary_keys # <<>>
          /\ \A k \in Range(p.primary_keys) : HasColumn(df, k) /\ k \in TableNames(tbl)

\* SELECT $columns FROM staging, as rows of the table
StagingRows(p, tbl, df) ==
    [i \in 1..Height(df) |->
        [c \in TableNames(tbl) |->
            IF c \in DeclaredSet(p) THEN col(df, c).values[i] ELSE NullValue]]

\* (pks) IN (SELECT pks FROM staging): a NULL compares equal to nothing
RowKeyMatch(row, stg, pks) ==
    \E i \in DOMAIN stg :
        \A k \in Range(pks) : ~row[k].null /\ ~stg[i][k].null /\ row[k] = stg[i][k]

\* the rows of the table once the statements of the strategy are committed
ReplicatedRows(p, tbl, df) ==
    LET stg == StagingRows(p, tbl, df) IN
    CASE p.replication = "full" -> stg
      [] p.replication = "append" -> tbl.rows \o stg
      [] p.replication = "incremental" ->
            SelectSeq(tbl.rows, LAMBDA row : ~RowKeyMatch(row, stg, p.primary_keys)) \o stg

\* GoogleSheetsLoader._dataframe_to_sheets_data
FormatCell(series, i) ==
    IF series.values[i].null THEN <<>>
    ELSE IF series.dtype = "datetime"
    THEN series.values[i].v \o <<" ", "0", "0", ":", "0", "0", ":", "0", "0">>
    ELSE series.values[i].v
dataframe_to_sheets_data(p, df) ==
    [header |-> [i \in DOMAIN p.columns |-> p.columns[i].name],
     rows |-> [r \in 1..Height(df) |-> [c \in DOMAIN df |-> FormatCell(df[c].series, r)]]]
EmptySheet == [header |-> <<>>, rows |-> <<>>]

AttributeError(name) == [type |-> "AttributeError", msg |-> <<name>>]

\* LoaderFactory.create
LoaderFactory_create(p) ==
    IF p.destination = None THEN "DuckLakeLoader"
    ELSE IF p.destination = "gsheet" THEN "GoogleSheetsLoader"
    ELSE "DuckLakeLoader"

\* ------------------------------------------------------------------ state
VARIABLES
    pc,          \* where the caller is: "config", "invalid", "built", "ready",
                 \*   "try" (in load's try block), "except" (in its handler), "ended"
    ip,          \* index in LoadBody of the statement of the try block to run next
    raw,         \* the parsed YAML the pipeline is built from
    pipeline,    \* the ETLPipeline
    batch,       \* the DataFrame handed to load
    dest0,       \* rows of the destination table before the first load
    dest,        \* committed rows of the destination table
    work,        \* rows of the destination table as the connection sees them
    txn,         \* TRUE while a transaction is open on the connection
    staging,     \* the relation registered as "staging"
    calls,       \* calls made on the connection by the current load, in order
    todo,        \* statements replicate() has still to execute
    strategy,    \* class returned by get_replication_strategy
    requested,   \* TRUE once get_replication_strategy was called
    error,       \* the exception raised last
    raisedAt,    \* statement of the try block that raised an Exception
    outcome,     \* how load ended: "returned", "raised", "interrupted"
    pre,         \* committed rows of the destination when load was called
    nCommitted   \* loads committed so far

loadVars == <<pc, ip, raw, pipeline, batch, dest0, dest, work, txn, staging, calls,
              todo, strategy, requested, error, raisedAt, outcome, pre, nCommitted>>

\* state of DuckLakeConnManager.provision
VARIABLES
    settings,      \* the DuckLakeSettings: storage fields and setup_path
    ppc,           \* where provision is: "start", "install", "storage", "catalog",
                   \*   "execute" (inside _execute), "exit" (__exit__), "done"
    extIdx,        \* index in EXTENSIONS of the extension install_extensions is at
    pending,       \* statements the running _execute has still to execute
    resume,        \* the step of provision that called the running _execute
    issued,        \* statements passed to self._conn.execute, in order
    script,        \* lines written to the setup file
    fileOpen,      \* TRUE while self._setup_file is open
    perror,        \* the exception raised inside provision
    pout,          \* how provision ended: "returned", "raised"
    connReturned   \* TRUE once provision returned the connection

provVars == <<settings, ppc, extIdx, pending, resume, issued, script, fileOpen,
              perror, pout, connReturned>>

\* state of a PipelineRunner, its syncer, transformer and loader
VARIABLES
    run_pipeline,  \* the ETLPipeline the runner was built for
    rpc,           \* where the runner is: "new" (not constructed), "sync",
                   \*   "fetch", "transform", "load", "done"; "syncer" and
                   \*   "engine" while a caller uses the syncer or the
                   \*   ColumnTransformer on its own
    table,         \* the destination table in the catalog
    sheet,         \* the rows of the destination sheet
    executed,      \* statements the syncer passed to conn.execute, in order
    nSyncs,        \* calls of sync so far
    stages,        \* the stages started so far, in order, each with how it ended
    transformer,   \* class of the transformer the factory created
    loader,        \* class of the loader the factory created
    fetched,       \* the DataFrame fetch returned
    transformed,   \* the DataFrame transform returned
    loaded,        \* the DataFrame load was called with
    rerror,        \* the exception raised last, or logged last by load
    rout,          \* how the call ended: "returned", "raised", "interrupted"
    table0,        \* the destination table before the run
    sheet_calls    \* calls load made on the Sheets API, in order

runVars == <<run_pipeline, rpc, table, sheet, executed, nSyncs, stages, transformer,
             loader, fetched, transformed, loaded, rerror, rout, table0, sheet_calls>>

\* state of the command `wealthz run NAME`
VARIABLES
    config,        \* the file NAME.yaml: "missing", "invalid" or "valid"
    cli_pc,        \* where the command is: "none" (not used), "start",
                   \*   "running" (in PipelineRunner), "exited"
    exit_code,     \* the exit status of the process, None while it runs
    echoed         \* the messages printed with click.echo, in order

cliVars == <<config, cli_pc, exit_code, echoed>>

\* no command runs
IdleCli ==
    /\ config = "valid"
    /\ cli_pc = "none"
    /\ exit_code = None
    /\ echoed = <<>>

\* the idle values of a runner that is not used
IdleRun ==
    /\ run_pipeline = Pipeline(<<>>, "full", None)
    /\ rpc = "idle"
    /\ table = NoTable
    /\ sheet = EmptySheet
    /\ executed = <<>>
    /\ nSyncs = 0
    /\ stages = <<>>
    /\ transformer = "None"
    /\ loader = "None"
    /\ fetched = NoFrame
    /\ transformed = NoFrame
    /\ loaded = NoFrame
    /\ rerror = NoError
    /\ rout = "none"
    /\ table0 = NoTable
    /\ sheet_calls = <<>>

NoRelation == [registered |-> FALSE, rows |-> EmptyTable]
STAGING_TABLE_NAME == "staging"

\* a try block without begin, and one that registers before it begins
LoadBodyNoBegin == <<"register", "resolve", "replicate", "commit">>
LoadBodyRegisterFirst == <<"register", "begin", "resolve", "replicate", "commit">>
\* DuckLakeLoader.load, lines 148-152: the statements of the try block
LoadBody == <<"begin", "register", "resolve", "replicate", "commit">>

InitLoad ==
    /\ pc = "config"
    /\ ip = 0
    /\ raw \in RawConfigs
    /\ pipeline = NoPipeline
    /\ batch \in Tables(MaxBatch)
    /\ dest0 \in Tables(MaxDest)
    /\ dest = dest0
    /\ work = dest0
    /\ txn = FALSE
    /\ staging = NoRelation
    /\ calls = <<>>
    /\ todo = <<>>
    /\ strategy = NoStrategy
    /\ requested = FALSE
    /\ error = NoError
    /\ raisedAt = "none"
    /\ outcome = "none"
    /\ pre = dest0
    /\ nCommitted = 0
    \* no provisioning runs alongside
    /\ settings = [name |-> "lake", setup_path |-> "",
                   storage |-> [k \in Range(StorageFields) |->
                                   IF k = "type" THEN "s3"
                                   ELSE IF k \in OptionalFields THEN None ELSE "v"]]
    /\ ppc = "done"
    /\ extIdx = 1
    /\ pending = <<>>
    /\ resume = ""
    /\ issued = <<>>
    /\ script = <<>>
    /\ fileOpen = FALSE
    /\ perror = NoError
    /\ pout = "none"
    /\ connReturned = FALSE
    /\ IdleRun
    /\ IdleCli

\* ETLPipeline.model_validate: replication must be a ReplicationType; Table
\* declares no validator over primary_keys.
ModelValidate ==
    /\ pc = "config"
    /\ IF raw.replication \in ReplicationType
       THEN /\ pipeline' = [name |-> "people", columns |-> ColumnNames,
                            replication |-> raw.replication,
                            primary_keys |-> raw.primary_keys]
            /\ pc' = "built"
            /\ error' = error
       ELSE /\ pipeline' = pipeline
            /\ pc' = "invalid"
            /\ error' = ValidationError(raw.replication)
    /\ UNCHANGED <<ip, raw, batch, dest0, dest, work, txn, staging, calls, todo,
                   strategy, requested, raisedAt, outcome, pre, nCommitted>>
    /\ UNCHANGED <<provVars, runVars, cliVars>>

\* pipeline.replication = v on a built pipeline (BaseConfig does not validate
\* assignments), as test_duck_lake_loader_unknown_replication_type does
AssignReplication ==
    /\ pc = "built"
    /\ \E v \in RawReplications \ ReplicationType :
          /\ pipeline.replication # v
          /\ pipeline' = [pipeline EXCEPT !.replication = v]
    /\ UNCHANGED <<pc, ip, raw, batch, dest0, dest, work, txn, staging, calls, todo,
                   strategy, requested, error, raisedAt, outcome, pre, nCommitted>>
    /\ UNCHANGED <<provVars, runVars, cliVars>>

\* DuckLakeLoader.__init__
NewLoader ==
    /\ pc = "built"
    /\ pc' = "ready"
    /\ UNCHANGED <<ip, raw, pipeline, batch, dest0, dest, work, txn, staging, calls,
                   todo, strategy, requested, error, raisedAt, outcome, pre, nCommitted>>
    /\ UNCHANGED <<provVars, runVars, cliVars>>

\* loader.get_replication_strategy() called by the owner of the loader
RequestStrategy ==
    /\ pc = "ready"
    /\ ~requested
    /\ LET res == get_replication_strategy(pipeline) IN
          /\ strategy' = res.strategy
          /\ error' = res.error
    /\ requested' = TRUE
    /\ UNCHANGED <<pc, ip, raw, pipeline, batch, dest0, dest, work, txn, staging,
                   calls, todo, raisedAt, outcome, pre, nCommitted>>
    /\ UNCHANGED <<provVars, runVars, cliVars>>

\* loader.load(df) is called, on the connection of a new run
StartLoad ==
    /\ pc \in {"ready", "ended"}
    /\ nCommitted < MaxLoads
    /\ pc' = "try"
    /\ ip' = 1
    /\ txn' = FALSE
    /\ work' = dest
    /\ staging' = NoRelation
    /\ calls' = <<>>
    /\ todo' = <<>>
    /\ strategy' = NoStrategy
    /\ requested' = FALSE
    /\ error' = NoError
    /\ raisedAt' = "none"
    /\ outcome' = "none"
    /\ pre' = dest
    /\ UNCHANGED <<raw, pipeline, batch, dest0, dest, nCommitted>>
    /\ UNCHANGED <<provVars, runVars, cliVars>>

AtStep(step) == pc = "try" /\ ip \in DOMAIN LoadBody /\ LoadBody[ip] = step

\* the statement of the try block completed: the next one, or load returns
StepDone ==
    IF ip + 1 \in DOMAIN LoadBody
    THEN pc' = "try" /\ ip' = ip + 1 /\ outcome' = outcome
    ELSE pc' = "ended" /\ ip' = 0 /\ outcome' = "returned"

\* the statement of the try block raised an Exception: `except Exception`
StepRaised(step, e) ==
    /\ pc' = "except"
    /\ ip' = 0
    /\ outcome' = outcome
    /\ error' = e
    /\ raisedAt' = step

\* self.conn.begin()
LoadBegin ==
    /\ AtStep("begin")
    /\ calls' = Append(calls, "begin")
    /\ \E ok \in BOOLEAN :
          IF ok /\ ~txn
          THEN /\ txn' = TRUE
               /\ work' = dest
               /\ StepDone
               /\ UNCHANGED <<error, raisedAt>>
          ELSE /\ StepRaised("begin", DbError("begin"))
               /\ UNCHANGED <<txn, work>>
    /\ UNCHANGED <<raw, pipeline, batch, dest0, dest, staging, todo, strategy,
                   requested, pre, nCommitted>>
    /\ UNCHANGED <<provVars, runVars, cliVars>>

\* self.conn.register(self.STAGING_TABLE_NAME, df)
LoadRegister ==
    /\ AtStep("register")
    /\ calls' = Append(calls, "register")
    /\ \E ok \in BOOLEAN :
          IF ok
          THEN /\ staging' = [registered |-> TRUE, rows |-> batch]
               /\ StepDone
               /\ UNCHANGED <<error, raisedAt>>
          ELSE /\ StepRaised("register", DbError("register"))
               /\ UNCHANGED staging
    /\ UNCHANGED <<raw, pipeline, batch, dest0, dest, work, txn, todo, strategy,
                   requested, pre, nCommitted>>
    /\ UNCHANGED <<provVars, runVars, cliVars>>

\* strategy = self.get_replication_strategy()
LoadResolve ==
    /\ AtStep("resolve")
    /\ requested' = TRUE
    /\ LET res == get_replication_strategy(pipeline) IN
          IF res.raised
          THEN /\ StepRaised("resolve", res.error)
               /\ UNCHANGED <<strategy, todo>>
          ELSE /\ strategy' = res.strategy
               /\ todo' = Replicate(res.strategy)
               /\ StepDone
               /\ UNCHANGED <<error, raisedAt>>
    /\ UNCHANGED <<raw, pipeline, batch, dest0, dest, work, txn, staging, calls,
                   pre, nCommitted>>
    /\ UNCHANGED <<provVars, runVars, cliVars>>

\* strategy.replicate(): its next self.conn.execute(stmt)
LoadReplicate ==
    /\ AtStep("replicate")
    /\ todo # <<>>
    /\ LET stmt == Head(todo) IN
          /\ calls' = Append(calls, stmt)
          /\ \E ok \in BOOLEAN :
                IF ok /\ staging.registered /\ StatementAccepted(stmt, pipeline)
                THEN /\ IF txn
                        THEN /\ work' = ExecuteStatement(stmt, work, staging.rows, pipeline)
                             /\ dest' = dest
                        ELSE /\ dest' = ExecuteStatement(stmt, dest, staging.rows, pipeline)
                             /\ work' = dest'
                     /\ todo' = Tail(todo)
                     /\ IF Tail(todo) = <<>>
                        THEN StepDone
                        ELSE UNCHANGED <<pc, ip, outcome>>
                     /\ UNCHANGED <<error, raisedAt>>
                ELSE /\ StepRaised("replicate", DbError(stmt))
                     /\ UNCHANGED <<dest, work, todo>>
    /\ UNCHANGED <<raw, pipeline, batch, dest0, txn, staging, strategy, requested,
                   pre, nCommitted>>
    /\ UNCHANGED <<provVars, runVars, cliVars>>

\* self.conn.commit(); a commit that raises has published nothing
LoadCommit ==
    /\ AtStep("commit")
    /\ calls' = Append(calls, "commit")
    /\ \E ok \in BOOLEAN :
          IF ok /\ txn
          THEN /\ dest' = work
               /\ txn' = FALSE
               /\ nCommitted' = nCommitted + 1
               /\ StepDone
               /\ UNCHANGED <<error, raisedAt>>
          ELSE /\ StepRaised("commit", DbError("commit"))
               /\ UNCHANGED <<dest, txn, nCommitted>>
    /\ UNCHANGED <<raw, pipeline, batch, dest0, work, staging, todo, strategy,
                   requested, pre>>
    /\ UNCHANGED <<provVars, runVars, cliVars>>

\* a handler that only logs
LoadExceptNoRollback ==
    /\ pc = "except"
    /\ pc' = "ended"
    /\ outcome' = "returned"
    /\ UNCHANGED <<ip, raw, pipeline, batch, dest0, dest, work, txn, staging, calls,
                   todo, strategy, requested, error, raisedAt, pre, nCommitted>>
    /\ UNCHANGED <<provVars, runVars, cliVars>>

\* except Exception: self.conn.rollback(); logger.exception("Transaction failed")
LoadExcept ==
    /\ pc = "except"
    /\ calls' = Append(calls, "rollback")
    /\ pc' = "ended"
    /\ \E ok \in BOOLEAN :
          IF ok
          THEN /\ txn' = FALSE
               /\ work' = dest
               /\ outcome' = "returned"
               /\ error' = error
          ELSE /\ outcome' = "raised"
               /\ error' = DbError("rollback")
               /\ UNCHANGED <<txn, work>>
    /\ UNCHANGED <<ip, raw, pipeline, batch, dest0, dest, staging, todo, strategy,
                   requested, raisedAt, pre, nCommitted>>
    /\ UNCHANGED <<provVars, runVars, cliVars>>

\* a BaseException that is no Exception (KeyboardInterrupt) leaves load
LoadInterrupt ==
    /\ pc \in {"try", "except"}
    /\ pc' = "ended"
    /\ outcome' = "interrupted"
    /\ UNCHANGED <<ip, raw, pipeline, batch, dest0, dest, work, txn, staging, calls,
                   todo, strategy, requested, error, raisedAt, pre, nCommitted>>
    /\ UNCHANGED <<provVars, runVars, cliVars>>

InitProv ==
    /\ settings \in [name : {"lake"}, setup_path : SetupPaths, storage : StorageSettings]
    /\ ppc = "start"
    /\ extIdx = 1
    /\ pending = <<>>
    /\ resume = ""
    /\ issued = <<>>
    /\ script = <<>>
    /\ fileOpen = FALSE
    /\ perror = NoError
    /\ pout = "none"
    /\ connReturned = FALSE
    \* no load runs alongside
    /\ pc = "config"
    /\ ip = 0
    /\ raw = [replication |-> "full", primary_keys |-> <<"id">>]
    /\ pipeline = NoPipeline
    /\ batch = EmptyTable
    /\ dest0 = EmptyTable
    /\ dest = EmptyTable
    /\ work = EmptyTable
    /\ txn = FALSE
    /\ staging = NoRelation
    /\ calls = <<>>
    /\ todo = <<>>
    /\ strategy = NoStrategy
    /\ requested = FALSE
    /\ error = NoError
    /\ raisedAt = "none"
    /\ outcome = "none"
    /\ pre = EmptyTable
    /\ nCommitted = 0
    /\ IdleRun
    /\ IdleCli

\* the step of provision that follows a completed _execute
AfterExecute(step, idx) ==
    CASE step = "install" -> IF idx <= Len(EXTENSIONS) THEN "install" ELSE "storage"
      [] step = "storage" -> "catalog"
      [] step = "catalog" -> "exit"

\* an _execute that executes its statements without writing them first
CallExecuteNoWrite(step, statements, idx) ==
    /\ script' = script
    /\ pending' = statements
    /\ resume' = step
    /\ ppc' = IF statements = <<>> THEN AfterExecute(step, idx) ELSE "execute"

\* DuckLakeConnManager._execute is entered: the statements are written to the
\* setup file, each on a line and a blank line after them, before any is executed
CallExecute(step, statements, idx) ==
    /\ script' = IF fileOpen THEN script \o statements \o <<<<>>>> ELSE script
    /\ pending' = statements
    /\ resume' = step
    /\ ppc' = IF statements = <<>> THEN AfterExecute(step, idx) ELSE "execute"

\* DuckLakeConnManager.__enter__
ProvEnter ==
    /\ ppc = "start"
    /\ IF settings.setup_path # ""
       THEN \E ok \in BOOLEAN :
               IF ok
               THEN fileOpen' = TRUE /\ ppc' = "install" /\ UNCHANGED <<perror, pout>>
               ELSE /\ perror' = [type |-> "OSError", msg |-> <<"open">>]
                    /\ pout' = "raised"
                    /\ ppc' = "done"
                    /\ UNCHANGED fileOpen
       ELSE ppc' = "install" /\ UNCHANGED <<fileOpen, perror, pout>>
    /\ UNCHANGED <<settings, extIdx, pending, resume, issued, script, connReturned>>
    /\ UNCHANGED <<loadVars, runVars, cliVars>>

\* DuckLakeConnManager.install_extensions: one turn of its loop
ProvInstallExtension ==
    /\ ppc = "install"
    /\ extIdx <= Len(EXTENSIONS)
    /\ extIdx' = extIdx + 1
    /\ CallExecute("install", <<ExtInstallStmt(EXTENSIONS[extIdx]),
                                ExtLoadStmt(EXTENSIONS[extIdx])>>, extIdx + 1)
    /\ UNCHANGED <<settings, issued, fileOpen, perror, pout, connReturned>>
    /\ UNCHANGED <<loadVars, runVars, cliVars>>

\* DuckLakeConnManager.configure_storage
ProvConfigureStorage ==
    /\ ppc = "storage"
    /\ LET res == configure_storage(settings.storage) IN
          IF res.raised
          THEN /\ perror' = NotImplementedError
               /\ ppc' = "exit"
               /\ UNCHANGED <<pending, resume, script>>
          ELSE /\ CallExecute("storage", res.statements, extIdx)
               /\ UNCHANGED perror
    /\ UNCHANGED <<settings, extIdx, issued, fileOpen, pout, connReturned>>
    /\ UNCHANGED <<loadVars, runVars, cliVars>>

\* DuckLakeConnManager.configure_catalog
ProvConfigureCatalog ==
    /\ ppc = "catalog"
    /\ CallExecute("catalog", configure_catalog(settings), extIdx)
    /\ UNCHANGED <<settings, extIdx, issued, fileOpen, perror, pout, connReturned>>
    /\ UNCHANGED <<loadVars, runVars, cliVars>>

\* DuckLakeConnManager._execute: self._conn.execute(stmt) of its second loop
ProvExecute ==
    /\ ppc = "execute"
    /\ pending # <<>>
    /\ issued' = Append(issued, Head(pending))
    /\ \E ok \in BOOLEAN :
          IF ok
          THEN /\ pending' = Tail(pending)
               /\ ppc' = IF Tail(pending) = <<>> THEN AfterExecute(resume, extIdx)
                         ELSE "execute"
               /\ UNCHANGED perror
          ELSE /\ perror' = DbError(Head(pending)[1])
               /\ ppc' = "exit"
               /\ UNCHANGED pending
    /\ UNCHANGED <<settings, extIdx, resume, script, fileOpen, pout, connReturned>>
    /\ UNCHANGED <<loadVars, runVars, cliVars>>

\* DuckLakeConnManager.__exit__, and what `with self:` does with its result:
\* `return not exc_type` is false for an exception, which then propagates
ProvExit ==
    /\ ppc = "exit"
    /\ fileOpen' = FALSE
    /\ ppc' = "done"
    /\ IF perror = NoError
       THEN pout' = "returned" /\ connReturned' = TRUE
       ELSE pout' = "raised" /\ connReturned' = FALSE
    /\ UNCHANGED <<settings, extIdx, pending, resume, issued, script, perror>>
    /\ UNCHANGED <<loadVars, runVars, cliVars>>

\* ------------------------------------------- the syncer, called on its own
\* tables a run may find: none, one with the columns of the pipeline, one
\* with other columns
InitialTables(p) ==
    {NoTable, [exists |-> TRUE, columns |-> <<<<"z", "VARCHAR">>>>,
               rows |-> <<[c \in {"z"} |-> Val(<<"1">>)]>>]}
    \cup (IF p.columns = <<>> THEN {}
          ELSE {[exists |-> TRUE, columns |-> columns_def(p), rows |-> rows] :
                   rows \in {<<>>, <<[c \in DeclaredSet(p) |-> Val(<<"1">>)]>>}})

Stage(name, ended) == [name |-> name, ended |-> ended]

\* DuckLakeSchemaSyncer.sync, called by a test or a script
Sync ==
    /\ rpc = "syncer"
    /\ nSyncs < MaxSyncs
    /\ \E ok \in BOOLEAN :
          LET res == sync(run_pipeline, table, ok) IN
          /\ executed' = Append(executed, res.query)
          /\ table' = res.table
          /\ rerror' = res.error
          /\ rout' = IF res.raised THEN "raised" ELSE "returned"
    /\ nSyncs' = nSyncs + 1
    /\ UNCHANGED <<table0, sheet_calls, run_pipeline, rpc, sheet, stages, transformer, loader, fetched,
                   transformed, loaded>>
    /\ UNCHANGED <<loadVars, provVars, cliVars>>

\* ColumnTransformer(columns).transform(df), called by a test or a script
EngineTransform ==
    /\ rpc = "engine"
    /\ LET res == ColumnTransformer_transform(run_pipeline.columns, fetched) IN
          IF res.raised
          THEN /\ \E e \in res.errors : rerror' = e
               /\ rout' = "raised"
               /\ UNCHANGED transformed
          ELSE /\ transformed' = res.df
               /\ rout' = "returned"
               /\ UNCHANGED rerror
    /\ rpc' = "done"
    /\ UNCHANGED <<table0, sheet_calls, run_pipeline, table, sheet, executed, nSyncs, stages, transformer,
                   loader, fetched, loaded>>
    /\ UNCHANGED <<loadVars, provVars, cliVars>>

\* ------------------------------------------------------ the PipelineRunner
\* run ends by raising e: the handler of run logs and raises again
RunRaises(e) ==
    /\ rerror' = e
    /\ rout' = "raised"
    /\ rpc' = "done"

\* PipelineRunner.__init__: provision, then the syncer and the factories
RunnerInit ==
    /\ rpc = "new"
    /\ \E provisioned, created \in BOOLEAN :
          IF ~provisioned
          THEN /\ stages' = Append(stages, Stage("provision", "raised"))
               /\ RunRaises(DbError("provision"))
               /\ UNCHANGED <<transformer, loader>>
          ELSE IF ~created
          THEN /\ stages' = Append(stages, Stage("provision", "returned"))
               /\ RunRaises([type |-> "Exception", msg |-> <<"factory">>])
               /\ UNCHANGED <<transformer, loader>>
          ELSE /\ stages' = Append(stages, Stage("provision", "returned"))
               /\ transformer' = TransformerFactory_create(run_pipeline)
               /\ loader' = LoaderFactory_create(run_pipeline)
               /\ rpc' = "sync"
               /\ UNCHANGED <<rerror, rout>>
    /\ UNCHANGED <<table0, sheet_calls, run_pipeline, table, sheet, executed, nSyncs, fetched, transformed,
                   loaded>>
    /\ UNCHANGED <<loadVars, provVars, cliVars>>

\* run, line 36: self._syncer.sync()
RunSync ==
    /\ rpc = "sync"
    /\ \E ok \in BOOLEAN :
          LET res == sync(run_pipeline, table, ok) IN
          /\ executed' = Append(executed, res.query)
          /\ table' = res.table
          /\ IF res.raised
             THEN /\ stages' = Append(stages, Stage("sync", "raised"))
                  /\ RunRaises(res.error)
             ELSE /\ stages' = Append(stages, Stage("sync", "returned"))
                  /\ rpc' = "fetch"
                  /\ UNCHANGED <<rerror, rout>>
    /\ nSyncs' = nSyncs + 1
    /\ UNCHANGED <<table0, sheet_calls, run_pipeline, sheet, transformer, loader, fetched, transformed, loaded>>
    /\ UNCHANGED <<loadVars, provVars, cliVars>>

\* run, line 40: df = self._fetcher.fetch()
RunFetch ==
    /\ rpc = "fetch"
    /\ \/ \E df \in Frames :
             /\ fetched' = df
             /\ stages' = Append(stages, Stage("fetch", "returned"))
             /\ rpc' = "transform"
             /\ UNCHANGED <<rerror, rout>>
       \/ /\ stages' = Append(stages, Stage("fetch", "raised"))
          /\ RunRaises([type |-> "RuntimeError", msg |-> <<"Fetch failed">>])
          /\ UNCHANGED fetched
    /\ UNCHANGED <<table0, sheet_calls, run_pipeline, table, sheet, executed, nSyncs, transformer, loader,
                   transformed, loaded>>
    /\ UNCHANGED <<loadVars, provVars, cliVars>>

\* run, line 44: df = self._transformer.transform(df)
RunTransform ==
    /\ rpc = "transform"
    /\ LET res == transform(transformer, run_pipeline, fetched) IN
          IF res.raised
          THEN /\ stages' = Append(stages, Stage("transform", "raised"))
               /\ \E e \in res.errors : RunRaises(e)
               /\ UNCHANGED transformed
          ELSE /\ stages' = Append(stages, Stage("transform", "returned"))
               /\ transformed' = res.df
               /\ rpc' = "load"
               /\ UNCHANGED <<rerror, rout>>
    /\ UNCHANGED <<table0, sheet_calls, run_pipeline, table, sheet, executed, nSyncs, transformer, loader,
                   fetched, loaded>>
    /\ UNCHANGED <<loadVars, provVars, cliVars>>

\* a load whose rollback takes back the CREATE TABLE of the syncer as well
DuckLakeLoader_load_rollback_drops_table(df) ==
    \E ok, rolled_back \in BOOLEAN :
        LET committed == ok /\ LoadAccepted(run_pipeline, table, df) IN
        /\ committed => rolled_back
        /\ table' = IF committed
                    THEN [table EXCEPT !.rows = ReplicatedRows(run_pipeline, table, df)]
                    ELSE IF rolled_back THEN table0 ELSE table
        /\ IF rolled_back
           THEN /\ stages' = Append(stages, Stage("load", "returned"))
                /\ rout' = "returned"
                /\ rpc' = "done"
                /\ rerror' = IF committed THEN rerror ELSE DbError("Transaction failed")
           ELSE /\ stages' = Append(stages, Stage("load", "raised"))
                /\ RunRaises(DbError("rollback"))
        /\ UNCHANGED <<sheet, sheet_calls>>

\* DuckLakeLoader.load as one call: the statements are committed; or they
\* are rolled back and the exception is logged, and load returns; or the
\* rollback raises as well (rolled_back is FALSE)
DuckLakeLoader_load(df) ==
    \E ok, rolled_back \in BOOLEAN :
        LET committed == ok /\ LoadAccepted(run_pipeline, table, df) IN
        /\ committed => rolled_back
        /\ table' = IF committed
                    THEN [table EXCEPT !.rows = ReplicatedRows(run_pipeline, table, df)]
                    ELSE table
        /\ IF rolled_back
           THEN /\ stages' = Append(stages, Stage("load", "returned"))
                /\ rout' = "returned"
                /\ rpc' = "done"
                /\ rerror' = IF committed THEN rerror ELSE DbError("Transaction failed")
           ELSE /\ stages' = Append(stages, Stage("load", "raised"))
                /\ RunRaises(DbError("rollback"))
        /\ UNCHANGED <<sheet, sheet_calls>>

\* a load that writes the values first and clears the range after
GoogleSheetsLoader_load_update_first(df) ==
    \E updated, cleared \in BOOLEAN :
        /\ updated \/ ~cleared
        /\ sheet_calls' = sheet_calls \o (IF updated THEN <<"update", "clear">>
                                          ELSE <<"update">>)
        /\ sheet' = IF ~updated THEN sheet
                    ELSE IF ~cleared THEN dataframe_to_sheets_data(run_pipeline, df)
                    ELSE EmptySheet
        /\ IF cleared
           THEN /\ stages' = Append(stages, Stage("load", "returned"))
                /\ rout' = "returned"
                /\ rpc' = "done"
                /\ UNCHANGED rerror
           ELSE /\ stages' = Append(stages, Stage("load", "raised"))
                /\ RunRaises([type |-> "HttpError",
                              msg |-> <<IF updated THEN "clear" ELSE "update">>])
        /\ UNCHANGED table

\* GoogleSheetsLoader.load as one call: _dataframe_to_sheets_data, then
\* _write_to_sheet clears the range and updates it; an exception of clear or
\* of update is logged and raised again
GoogleSheetsLoader_load(df) ==
    \E cleared, updated \in BOOLEAN :
        /\ cleared \/ ~updated
        /\ sheet_calls' = sheet_calls \o (IF cleared THEN <<"clear", "update">>
                                          ELSE <<"clear">>)
        /\ sheet' = IF ~cleared THEN sheet
                    ELSE IF ~updated THEN EmptySheet
                    ELSE dataframe_to_sheets_data(run_pipeline, df)
        /\ IF updated
           THEN /\ stages' = Append(stages, Stage("load", "returned"))
                /\ rout' = "returned"
                /\ rpc' = "done"
                /\ UNCHANGED rerror
           ELSE /\ stages' = Append(stages, Stage("load", "raised"))
                /\ RunRaises([type |-> "HttpError",
                              msg |-> <<IF cleared THEN "update" ELSE "clear">>])
        /\ UNCHANGED table

\* a run that loads the batch fetch returned
RunLoadFetched ==
    /\ rpc = "load"
    /\ IF run_pipeline.destination = None
       THEN /\ RunRaises(AttributeError("type"))
            /\ UNCHANGED <<table, sheet, sheet_calls, stages, loaded>>
       ELSE /\ loaded' = fetched
            /\ IF loader = "GoogleSheetsLoader"
               THEN GoogleSheetsLoader_load(fetched)
               ELSE DuckLakeLoader_load(fetched)
    /\ UNCHANGED <<table0, run_pipeline, executed, nSyncs, transformer, loader, fetched,
                   transformed>>
    /\ UNCHANGED <<loadVars, provVars, cliVars>>

\* run, lines 48-49: the log line reads self._pipeline.destination.type, then
\* self._loader.load(df) is called with the batch transform returned
RunLoad ==
    /\ rpc = "load"
    /\ IF run_pipeline.destination = None
       THEN /\ RunRaises(AttributeError("type"))
            /\ UNCHANGED <<table, sheet, sheet_calls, stages, loaded>>
       ELSE /\ loaded' = transformed
            /\ IF loader = "GoogleSheetsLoader"
               THEN GoogleSheetsLoader_load(transformed)
               ELSE DuckLakeLoader_load(transformed)
    /\ UNCHANGED <<table0, run_pipeline, executed, nSyncs, transformer, loader, fetched,
                   transformed>>
    /\ UNCHANGED <<loadVars, provVars, cliVars>>

\* ------------------------------------------------ cli.py: wealthz run NAME
ConfigNotFound == <<"Error: Configuration file not found">>
InvalidConfiguration == <<"Error: Invalid pipeline configuration">>
ExecutedSuccessfully == <<"Pipeline executed successfully">>
ExecutionFailed == <<"Pipeline execution failed">>
InterruptedByUser == <<"Pipeline execution interrupted by user">>

\* run, lines 29-45: the file is looked up and the pipeline is built from it
CliLoadConfig ==
    /\ cli_pc = "start"
    /\ CASE config = "missing" ->
              /\ echoed' = Append(echoed, ConfigNotFound)
              /\ exit_code' = 1
              /\ cli_pc' = "exited"
              /\ UNCHANGED rpc
         [] config = "invalid" ->
              /\ echoed' = Append(echoed, InvalidConfiguration)
              /\ exit_code' = 1
              /\ cli_pc' = "exited"
              /\ UNCHANGED rpc
         [] config = "valid" ->
              /\ cli_pc' = "running"
              /\ rpc' = "new"
              /\ UNCHANGED <<echoed, exit_code>>
    /\ UNCHANGED <<config, run_pipeline, table, sheet, executed, nSyncs, stages,
                   transformer, loader, fetched, transformed, loaded, rerror, rout,
                   table0, sheet_calls>>
    /\ UNCHANGED <<loadVars, provVars>>

\* a cli that exits with status 1 whenever the load stage logged an error
CliExitChecksLoad ==
    /\ cli_pc = "running"
    /\ rpc = "done"
    /\ IF rout = "returned" /\ rerror = NoError
       THEN echoed' = Append(echoed, ExecutedSuccessfully) /\ exit_code' = 0
       ELSE echoed' = Append(echoed, ExecutionFailed) /\ exit_code' = 1
    /\ cli_pc' = "exited"
    /\ UNCHANGED <<config, runVars, loadVars, provVars>>

\* run, lines 48-58: PipelineRunner(pipeline).run() returned, and the success
\* message is printed, or raised an Exception, and the process exits with 1
CliExit ==
    /\ cli_pc = "running"
    /\ rpc = "done"
    /\ IF rout = "returned"
       THEN echoed' = Append(echoed, ExecutedSuccessfully) /\ exit_code' = 0
       ELSE echoed' = Append(echoed, ExecutionFailed) /\ exit_code' = 1
    /\ cli_pc' = "exited"
    /\ UNCHANGED <<config, runVars, loadVars, provVars>>

\* run, lines 53-55: a KeyboardInterrupt while the runner is built or runs
CliInterrupt ==
    /\ cli_pc = "running"
    /\ rpc \in {"new", "sync", "fetch", "transform", "load"}
    /\ rpc' = "done"
    /\ rout' = "interrupted"
    /\ echoed' = Append(echoed, InterruptedByUser)
    /\ exit_code' = 1
    /\ cli_pc' = "exited"
    /\ UNCHANGED <<config, run_pipeline, table, sheet, executed, nSyncs, stages,
                   transformer, loader, fetched, transformed, loaded, rerror,
                   table0, sheet_calls>>
    /\ UNCHANGED <<loadVars, provVars>>

\* no load and no provisioning run alongside
IdleLoad ==
    /\ pc = "config"
    /\ ip = 0
    /\ raw = [replication |-> "full", primary_keys |-> <<"id">>]
    /\ pipeline = NoPipeline
    /\ batch = EmptyTable
    /\ dest0 = EmptyTable
    /\ dest = EmptyTable
    /\ work = EmptyTable
    /\ txn = FALSE
    /\ staging = NoRelation
    /\ calls = <<>>
    /\ todo = <<>>
    /\ strategy = NoStrategy
    /\ requested = FALSE
    /\ error = NoError
    /\ raisedAt = "none"
    /\ outcome = "none"
    /\ pre = EmptyTable
    /\ nCommitted = 0
IdleProv ==
    /\ settings = [name |-> "lake", setup_path |-> "",
                   storage |-> [k \in Range(StorageFields) |->
                                   IF k = "type" THEN "s3"
                                   ELSE IF k \in OptionalFields THEN None ELSE "v"]]
    /\ ppc = "done"
    /\ extIdx = 1
    /\ pending = <<>>
    /\ resume = ""
    /\ issued = <<>>
    /\ script = <<>>
    /\ fileOpen = FALSE
    /\ perror = NoError
    /\ pout = "none"
    /\ connReturned = FALSE

\* a syncer built for a pipeline whose columns have any of the declared types
InitSync ==
    /\ run_pipeline \in {Pipeline(cols, "full", None) : cols \in ColumnLists(ColumnType, {<<>>})}
    /\ rpc = "syncer"
    /\ table \in InitialTables(run_pipeline)
    /\ sheet = EmptySheet
    /\ executed = <<>>
    /\ nSyncs = 0
    /\ stages = <<>>
    /\ transformer = "None"
    /\ loader = "None"
    /\ fetched = NoFrame
    /\ transformed = NoFrame
    /\ loaded = NoFrame
    /\ rerror = NoError
    /\ rout = "none"
    /\ table0 = table
    /\ sheet_calls = <<>>
    /\ IdleLoad
    /\ IdleProv
    /\ IdleCli

\* a ColumnTransformer built for no column or for the column "test", and a
\* frame of one row
InitTransform ==
    /\ run_pipeline \in {Pipeline(cols, "full", None) :
                            cols \in {<<>>} \cup {<<Column("test", "string", l)>> :
                                                     l \in TransformLists}}
    /\ rpc = "engine"
    /\ table = NoTable
    /\ sheet = EmptySheet
    /\ executed = <<>>
    /\ nSyncs = 0
    /\ stages = <<>>
    /\ transformer = "ColumnTransformer"
    /\ loader = "None"
    /\ fetched \in {<<FrameColumn("test", Series("str", <<v>>))>> : v \in Values}
    /\ transformed = NoFrame
    /\ loaded = NoFrame
    /\ rerror = NoError
    /\ rout = "none"
    /\ table0 = table
    /\ sheet_calls = <<>>
    /\ IdleLoad
    /\ IdleProv
    /\ IdleCli

OldSheet == [header |-> <<"a">>, rows |-> <<<<<<"0">>>>>>]

\* a pipeline handed to PipelineRunner
InitRun ==
    /\ run_pipeline \in {Pipeline(cols, r, d) :
                            cols \in ColumnLists({"string"}, RunTransformLists),
                            r \in ReplicationType, d \in Destinations}
    /\ rpc = "new"
    /\ table \in InitialTables(run_pipeline)
    /\ sheet = OldSheet
    /\ executed = <<>>
    /\ nSyncs = 0
    /\ stages = <<>>
    /\ transformer = "None"
    /\ loader = "None"
    /\ fetched = NoFrame
    /\ transformed = NoFrame
    /\ loaded = NoFrame
    /\ rerror = NoError
    /\ rout = "none"
    /\ table0 = table
    /\ sheet_calls = <<>>
    /\ IdleLoad
    /\ IdleProv
    /\ IdleCli

\* `wealthz run NAME` is started: the file is missing, or invalid, or holds
\* a pipeline
InitCli ==
    /\ config \in {"missing", "invalid", "valid"}
    /\ cli_pc = "start"
    /\ exit_code = None
    /\ echoed = <<>>
    /\ run_pipeline \in
          IF config = "valid"
          THEN {Pipeline(cols, r, d) :
                   cols \in ColumnLists({"string"}, RunTransformLists),
                   r \in ReplicationType, d \in Destinations}
          ELSE {Pipeline(<<>>, "full", None)}
    /\ rpc = "cli"
    /\ table \in InitialTables(run_pipeline)
    /\ sheet = OldSheet
    /\ executed = <<>>
    /\ nSyncs = 0
    /\ stages = <<>>
    /\ transformer = "None"
    /\ loader = "None"
    /\ fetched = NoFrame
    /\ transformed = NoFrame
    /\ loaded = NoFrame
    /\ rerror = NoError
    /\ rout = "none"
    /\ table0 = table
    /\ sheet_calls = <<>>
    /\ IdleLoad
    /\ IdleProv

NextSync ==
    \/ Sync

NextTransform ==
    \/ EngineTransform

NextRun ==
    \/ RunnerInit
    \/ RunSync
    \/ RunFetch
    \/ RunTransform
    \/ RunLoad

NextCli ==
    \/ CliLoadConfig
    \/ RunnerInit
    \/ RunSync
    \/ RunFetch
    \/ RunTransform
    \/ RunLoad
    \/ CliExit
    \/ CliInterrupt

NextProv ==
    \/ ProvEnter
    \/ ProvInstallExtension
    \/ ProvConfigureStorage
    \/ ProvConfigureCatalog
    \/ ProvExecute
    \/ ProvExit

NextLoad ==
    \/ ModelValidate
    \/ AssignReplication
    \/ NewLoader
    \/ RequestStrategy
    \/ StartLoad
    \/ LoadBegin
    \/ LoadRegister
    \/ LoadResolve
    \/ LoadReplicate
    \/ LoadCommit
    \/ LoadExcept
    \/ LoadInterrupt

vars == <<loadVars, provVars, runVars, cliVars>>

\* the loader: pipelines are built and batches loaded
Spec == InitLoad /\ [][NextLoad]_vars

\* the connection manager: provision() runs
SpecProv == InitProv /\ [][NextProv]_vars

\* the schema syncer: sync() is called, and called again
SpecSync == InitSync /\ [][NextSync]_vars

\* the transform engine: transform() is called on a frame
SpecTransform == InitTransform /\ [][NextTransform]_vars

\* the runner: a PipelineRunner is built and run
SpecRun == InitRun /\ [][NextRun]_vars

\* the command line: `wealthz run NAME` from its start to its exit
SpecCli == InitCli /\ [][NextCli]_vars

\* ------------------------------------------------------------- properties
Count(seq, x) == Cardinality({i \in DOMAIN seq : seq[i] = x})

\* load ended by returning after its try block completed
Succeeded == pc = "ended" /\ outcome = "returned" /\ raisedAt = "none"

\* the primary-key tuple of a row
KeyOf(r, pks) == [i \in DOMAIN pks |-> r[pks[i]]]

\* no two rows of the table share a primary-key tuple
DistinctKeys(t, pks) ==
    \A r, s \in Rows :
        (t[r] > 0 /\ t[s] > 0 /\ KeyOf(r, pks) = KeyOf(s, pks)) => (r = s /\ t[r] = 1)

\* no row of the table has a NULL primary-key component
NonNullKeys(t, pks) ==
    \A r \in Rows : t[r] > 0 => \A i \in DOMAIN pks : r[pks[i]] # Null

\* rows of D whose key tuple does not occur in B, together with the rows of B
Upsert(D, B, pks) ==
    [r \in Rows |->
        (IF \E s \in Rows : B[s] > 0 /\ KeyOf(s, pks) = KeyOf(r, pks) THEN 0 ELSE D[r])
        + B[r]]

\* what section 4.4 of the specification says each policy leaves in the table
FullResult(p, D, B) ==
    CASE p.replication = "full" -> B
      [] p.replication = "append" -> Plus(D, B)
      [] p.replication = "incremental" ->
            [r \in Rows |->
                (IF \E s \in Rows : B[s] > 0 /\ KeyMatch(r, s, p.primary_keys)
                 THEN 0 ELSE D[r]) + B[r]]

\* C1: whenever load has rolled back after an exception during staging
\* registration, strategy resolution or strategy execution, it does not
\* return normally to its caller (it propagates an error).
C1_RollbackPropagates ==
    (pc = "ended" /\ raisedAt \in {"register", "resolve", "replicate"}
        /\ Count(calls, "rollback") > 0 /\ ~txn)
    => outcome # "returned"

\* C2: if registering the staging relation, resolving the strategy or a
\* statement of the strategy raised an exception, then by the time load has
\* returned or raised, begin was called exactly once, rollback exactly once
\* and commit never.
C2_RollbackOnException ==
    (pc = "ended" /\ outcome \in {"returned", "raised"}
        /\ raisedAt \in {"register", "resolve", "replicate"})
    => /\ Count(calls, "begin") = 1
       /\ Count(calls, "rollback") = 1
       /\ Count(calls, "commit") = 0

C2_Witness ==
    pc = "ended" /\ raisedAt = "replicate" /\ calls = <<"begin", "register", "TRUNCATE",
                                                         "INSERT", "rollback">>

\* C3: the committed rows of the destination are, at every moment of a load
\* and after it, either the rows it held when load was called or, once the
\* load succeeded, the full result of the policy; never the result of only
\* some of the strategy's statements.
C3_NoPartialCommit ==
    /\ pc \in {"try", "except"} => dest = pre
    /\ pc = "ended" =>
          IF Succeeded THEN dest = FullResult(pipeline, pre, batch) ELSE dest = pre

C3_Witness ==
    /\ pc = "ended" /\ raisedAt = "replicate"
    /\ calls = <<"begin", "register", "TRUNCATE", "INSERT", "rollback">>
    /\ pre # EmptyTable /\ pre # batch /\ dest = pre

\* C4: a successful load made exactly these calls on the connection, in this
\* order and each once: begin, register, the statements of the strategy
\* resolved from the pipeline's replication, commit.
C4_LoadOrder ==
    Succeeded =>
        /\ strategy = REPLICATION_STRATEGY_MAP[pipeline.replication]
        /\ calls = <<"begin", "register">> \o Replicate(strategy) \o <<"commit">>
        /\ staging = [registered |-> TRUE, rows |-> batch]
        /\ ~txn

C4_Witness ==
    Succeeded /\ calls = <<"begin", "register", "DELETE", "INSERT", "commit">>

\* C5: once one Full load of batch B has succeeded, and again after a second
\* one, the destination rows are exactly the rows of B, whatever the
\* destination held before.
C5_FullIdempotent ==
    (pipeline.replication = "full" /\ nCommitted >= 1 /\ pc = "ended") => dest = batch

C5_Witness ==
    /\ pipeline.replication = "full" /\ nCommitted = 2 /\ Succeeded
    /\ dest0 # EmptyTable /\ dest0 # batch /\ batch # EmptyTable

\* C6: starting from an empty destination, N successful Append loads of
\* batch B leave N copies of every row of B, N x |B| rows in all.
C6_AppendAccumulates ==
    (pipeline.replication = "append" /\ dest0 = EmptyTable /\ pc = "ended")
    => /\ dest = Times(nCommitted, batch)
       /\ Card(dest) = nCommitted * Card(batch)

C6_Witness ==
    /\ pipeline.replication = "append" /\ dest0 = EmptyTable /\ Succeeded
    /\ nCommitted = 2 /\ Card(batch) = 2 /\ Card(dest) = 4

\* C7 as stated: after a successful Incremental load of a batch with distinct
\* primary keys, the destination is the rows whose key tuple does not occur
\* in the batch, together with the rows of the batch.
C7_UpsertAnyKeys ==
    (Succeeded /\ pipeline.replication = "incremental"
        /\ DistinctKeys(batch, pipeline.primary_keys))
    => dest = Upsert(pre, batch, pipeline.primary_keys)

\* C7, amended: the same, for a batch whose primary keys are distinct and
\* hold no NULL.
C7_UpsertNonNullKeys ==
    (Succeeded /\ pipeline.replication = "incremental"
        /\ DistinctKeys(batch, pipeline.primary_keys)
        /\ NonNullKeys(batch, pipeline.primary_keys))
    => dest = Upsert(pre, batch, pipeline.primary_keys)

C7_Witness ==
    /\ Succeeded /\ pipeline.replication = "incremental"
    /\ pipeline.primary_keys = <<"id">>
    /\ pre = [r \in Rows |-> IF r \in {[id |-> "1", name |-> "A"], [id |-> "2", name |-> "B"]}
                             THEN 1 ELSE 0]
    /\ batch = [r \in Rows |-> IF r = [id |-> "2", name |-> "A"] THEN 1 ELSE 0]
    /\ dest = [r \in Rows |-> IF r \in {[id |-> "1", name |-> "A"], [id |-> "2", name |-> "A"]}
                              THEN 1 ELSE 0]

\* C8: for an Incremental pipeline whose primary_keys is empty or no subset
\* of its column names, no BEGIN, DELETE or INSERT is issued.
C8_ConfigErrorBeforeStatements ==
    (pipeline.replication = "incremental" /\ ~DeleteAccepted(pipeline))
    => \A i \in DOMAIN calls : calls[i] \notin {"begin", "DELETE", "INSERT"}

\* C9: a request for the strategy of a replication value other than full,
\* append or incremental raises UnknownReplicationStrategy with the value in
\* its message; a request for one of the three returns its strategy; and the
\* error is raised by the request, never while the pipeline is built.
C9_UnknownReplication ==
    /\ requested =>
          IF pipeline.replication \in ReplicationType
          THEN /\ strategy = REPLICATION_STRATEGY_MAP[pipeline.replication]
               /\ raisedAt # "resolve"
               /\ error.type # "UnknownReplicationStrategy"
          ELSE /\ strategy = NoStrategy
               /\ pc \in {"ready", "except"} =>
                     /\ error.type = "UnknownReplicationStrategy"
                     /\ pipeline.replication \in Range(error.msg)
               /\ pc \in {"except", "ended"} => raisedAt = "resolve"
               /\ pc # "try"
    /\ error.type = "UnknownReplicationStrategy" => requested
    /\ pc \in {"config", "invalid", "built"} => ~requested

C9_Witness ==
    /\ requested /\ pipeline.replication = "unknown"
    /\ error = UnknownReplicationStrategy("unknown")


\* the statements install_extensions issues when none fails
ExtensionStatements ==
    <<ExtInstallStmt(EXTENSIONS[1]), ExtLoadStmt(EXTENSIONS[1]),
      ExtInstallStmt(EXTENSIONS[2]), ExtLoadStmt(EXTENSIONS[2])>>

UnsupportedStorage == settings.storage["type"] \notin {"s3", "gcs"}

NoAttachOrUse == \A i \in DOMAIN issued : issued[i][1] \notin {"ATTACH", "USE"}

\* C10 as stated: provision with a storage type other than s3 or gcs fails
\* with NotImplementedError, returns no connection and never issues ATTACH or
\* USE.
C10_UnsupportedStorageNotImplemented ==
    UnsupportedStorage =>
        /\ NoAttachOrUse
        /\ ~connReturned
        /\ ppc = "done" => (pout = "raised" /\ perror = NotImplementedError)

\* C10, amended: provision with a storage type other than s3 or gcs never
\* returns a connection and never issues ATTACH or USE; it fails with
\* NotImplementedError once every extension is installed and loaded, and with
\* the error of the failed step if opening the setup file or an INSTALL or
\* LOAD failed first.
C10_UnsupportedStorageFails ==
    UnsupportedStorage =>
        /\ NoAttachOrUse
        /\ ~connReturned
        /\ ppc = "done" =>
              /\ pout = "raised"
              /\ \/ perror = NotImplementedError /\ issued = ExtensionStatements
                 \/ /\ perror = [type |-> "OSError", msg |-> <<"open">>]
                    /\ issued = <<>>
                 \/ /\ issued # <<>>
                    /\ issued = SubSeq(ExtensionStatements, 1, Len(issued))
                    /\ perror = DbError(issued[Len(issued)][1])

C10_Witness ==
    /\ UnsupportedStorage /\ ppc = "done" /\ pout = "raised"
    /\ perror = NotImplementedError /\ issued = ExtensionStatements

\* the statements recorded in the setup file: its lines but the blank ones
IsStatementLine(line) == line # <<>>
Recorded == SelectSeq(script, IsStatementLine)

IsPrefix(a, b) == Len(a) <= Len(b) /\ a = SubSeq(b, 1, Len(a))

\* C11: when a setup path is set, the statements passed to the connection by
\* install_extensions, configure_storage and configure_catalog are, at every
\* moment and in issue order, a prefix of the statements recorded in the setup
\* file, whether the last of them succeeded or raised.
C11_ScriptBeforeExecute ==
    settings.setup_path # "" => IsPrefix(issued, Recorded)

C11_Witness ==
    /\ settings.setup_path # "" /\ ppc = "done" /\ pout = "raised"
    /\ perror = DbError("INSTALL") /\ Len(issued) = 1 /\ Len(Recorded) = 2

\* the SQL type the specification gives each declared type
ExpectedSqlType ==
    [string |-> "VARCHAR", integer |-> "INTEGER", long |-> "LONG", float |-> "FLOAT",
     double |-> "DOUBLE", boolean |-> "BOOLEAN", date |-> "DATE", timestamp |-> "TIMESTAMP"]

\* C12: every statement the syncer executes is a CREATE TABLE IF NOT EXISTS of
\* the pipeline's table that lists the pipeline's columns, all of them and no
\* other, in declared order, each with the SQL type of its declared type:
\* VARCHAR for string, the uppercased name for the seven other types.
C12_TypeMapping ==
    rpc = "syncer" =>
        \A s \in DOMAIN executed :
            /\ executed[s].verb = "CREATE TABLE IF NOT EXISTS"
            /\ executed[s].table_name = run_pipeline.name
            /\ Len(executed[s].columns_def) = Len(run_pipeline.columns)
            /\ \A i \in DOMAIN run_pipeline.columns :
                  executed[s].columns_def[i] =
                      <<run_pipeline.columns[i].name,
                        ExpectedSqlType[run_pipeline.columns[i].type]>>

C12_Witness ==
    /\ rpc = "syncer" /\ executed # <<>>
    /\ run_pipeline.columns = <<Column("b", "string", <<>>), Column("a", "timestamp", <<>>)>>
    /\ executed[1].columns_def = <<<<"b", "VARCHAR">>, <<"a", "TIMESTAMP">>>>

\* C13: every call of sync executes one statement, the CREATE TABLE IF NOT
\* EXISTS of the pipeline; a call raises only when the connection fails or
\* the pipeline declares no column, never because the table exists; and a
\* call leaves a table that exists with the columns and the rows it had.
C13_SyncIdempotent ==
    /\ [](rpc = "syncer" =>
            /\ Len(executed) = nSyncs
            /\ \A s \in DOMAIN executed :
                  /\ executed[s].verb = "CREATE TABLE IF NOT EXISTS"
                  /\ executed[s].table_name = run_pipeline.name
            /\ rerror \in {NoError, DbError("CREATE"), ParserException("no columns")}
            /\ rerror = ParserException("no columns") => run_pipeline.columns = <<>>)
    /\ [][(rpc = "syncer" /\ table.exists) => table' = table]_vars

C13_Witness ==
    /\ rpc = "syncer" /\ nSyncs = 2 /\ rout = "returned" /\ rerror = NoError
    /\ table.exists /\ table.rows # <<>>
    /\ table.columns # columns_def(run_pipeline)

\* the column, the input value and the output value of a call of the engine
\* on a frame of one column and one row
TestTransforms == run_pipeline.columns[1].transforms
TestIn == fetched[1].series.values[1]
TestOut == transformed[1].series.values[1]
EngineCalled == rpc = "done" /\ transformer = "ColumnTransformer" /\ stages = <<>>

\* tn(...t2(t1(v))...): the last transform applied to what the others give
RECURSIVE Composed(_, _)
Composed(transforms, series) ==
    IF transforms = <<>> THEN Returned(series)
    ELSE LET inner == Composed(SubSeq(transforms, 1, Len(transforms) - 1), series) IN
         IF inner.raised THEN inner ELSE apply(inner.series, transforms[Len(transforms)])

Text(s) == Val(s)

IsSplitCall(index) ==
    /\ EngineCalled /\ run_pipeline.columns # <<>>
    /\ TestTransforms = <<SplitTransform(",", index)>>
    /\ ~TestIn.null

Commas(s) == Cardinality({i \in DOMAIN s : s[i] = ","})

\* C15: Split(",", index) with index >= 0 never raises; a value has one part
\* more than it has delimiters, the output is part index counted from 0 when
\* the value has more than index parts, and null otherwise: Split(",", 5) on
\* "a,b" and Split(",", 1) on "single" are null, Split(",", 1) on "a,b" is "b".
C15_SplitIndex ==
    \A index \in {i \in SplitIndexes : i >= 0} :
        IsSplitCall(index) =>
            LET parts == split(TestIn.v, ",") IN
            /\ rout = "returned"
            /\ Len(parts) = Commas(TestIn.v) + 1
            /\ TestOut = (IF Len(parts) >= index + 1 THEN Text(parts[index + 1])
                          ELSE NullValue)
            /\ (TestIn = Text(<<"a", ",", "b">>) /\ index = 5) => TestOut = NullValue
            /\ (TestIn = Text(<<"a", ",", "b">>) /\ index = 1) => TestOut = Text(<<"b">>)
            /\ (TestIn = Text(<<"s", "i", "n", "g", "l", "e">>) /\ index = 1)
                  => TestOut = NullValue

C15_Witness ==
    /\ IsSplitCall(5) /\ rout = "returned"
    /\ TestIn = Text(<<"a", ",", "b">>) /\ TestOut = NullValue

\* the stage of a run that has ended, and how
StageEnded(name) == \E i \in DOMAIN stages : stages[i].name = name
StageRaised(name) == \E i \in DOMAIN stages : stages[i] = Stage(name, "raised")
StageReturned(name) == \E i \in DOMAIN stages : stages[i] = Stage(name, "returned")
MissingColumns ==
    {name \in {run_pipeline.columns[i].name : i \in DOMAIN run_pipeline.columns} :
        ~HasColumn(fetched, name)}

\* C16: when the fetched batch lacks a declared column, the transform stage
\* raises a missing-column error that names a lacking column and hands no
\* batch on, whatever the pipeline, also when no column has a transform.
C16_MissingColumnRaises ==
    (StageEnded("transform") /\ MissingColumns # {}) =>
        /\ StageRaised("transform")
        /\ \E name \in MissingColumns : rerror = ColumnNotFoundError(name)
        /\ transformed = NoFrame

DeclaredColumns == [i \in DOMAIN run_pipeline.columns |-> run_pipeline.columns[i].name]

\* C17: for a pipeline with at least one declared column, the batch the
\* transform stage returns, and the batch load is given, have the declared
\* columns and no other, in declared order.
C17_ExactlyDeclaredColumns ==
    (run_pipeline.columns # <<>>) =>
        /\ StageReturned("transform") => frame_columns(transformed) = DeclaredColumns
        /\ StageEnded("load") => frame_columns(loaded) = DeclaredColumns

\* C18: the engine built with no column returns the batch it was given; a
\* column declared with no transform comes out with the values it had.
C18_TransformIdentity ==
    EngineCalled =>
        /\ run_pipeline.columns = <<>> => (rout = "returned" /\ transformed = fetched)
        /\ (run_pipeline.columns # <<>> /\ TestTransforms = <<>>) =>
              /\ rout = "returned"
              /\ transformed = <<FrameColumn("test", fetched[1].series)>>
              /\ transformed[1].series.values = fetched[1].series.values

C18_Witness ==
    /\ EngineCalled /\ rout = "returned"
    /\ run_pipeline.columns = <<>>
    /\ fetched = <<FrameColumn("test", Series("str", <<Text(<<"a", ",", "b">>)>>))>>
    /\ transformed = fetched

\* a value of the fetched batch that the first transform of its column, a
\* Cast to integer or a DateFormat, cannot convert
Unconvertible(column) ==
    /\ HasColumn(fetched, column.name)
    /\ column.transforms # <<>>
    /\ LET t == column.transforms[1]
           vs == col(fetched, column.name).values
       IN \E i \in DOMAIN vs :
             /\ ~vs[i].null
             /\ \/ t = CastTransform("integer") /\ ~ParsesInt32(vs[i].v)
                \/ t = DateFormatTransform("%Y-%m-%d") /\ ~ParsesDate(vs[i].v)
SomeUnconvertible ==
    \E i \in DOMAIN run_pipeline.columns : Unconvertible(run_pipeline.columns[i])

StageOrder == <<"provision", "sync", "fetch", "transform", "load">>

\* C20: the stages that have ended are a prefix of provision, sync, fetch,
\* transform, load, each once, and all but the last ended without an error;
\* transform is given the batch fetch returned and load the batch transform
\* returned; when sync, fetch or transform raises, run ends raising that
\* error and no later stage is started.
C20_StageOrder ==
    /\ Len(stages) <= Len(StageOrder)
    /\ \A i \in DOMAIN stages : stages[i].name = StageOrder[i]
    /\ \A i \in 1..(Len(stages) - 1) : stages[i].ended = "returned"
    /\ StageReturned("transform") =>
          /\ fetched # NoFrame
          /\ transformed = transform(transformer, run_pipeline, fetched).df
    /\ StageEnded("load") => (loaded = transformed /\ transformed # NoFrame)
    /\ ~StageEnded("load") => loaded = NoFrame
    /\ \A s \in {"sync", "fetch", "transform"} :
          StageRaised(s) =>
             /\ rpc = "done" /\ rout = "raised" /\ rerror # NoError
             /\ stages[Len(stages)].name = s

C20_Witness ==
    /\ rpc = "done" /\ rout = "returned"
    /\ Len(stages) = 5 /\ StageReturned("load")
    /\ transformer = "ColumnTransformer"
    /\ loaded = transformed /\ transformed # fetched

\* the statements a load has executed on the destination and the staging
\* relation, apart from the calls that open, feed and close the transaction
IsSqlStatement(c) == c \notin {"begin", "register", "commit", "rollback"}
Statements == SelectSeq(calls, IsSqlStatement)
FixedSequence ==
    [rt \in ReplicationType |->
        CASE rt = "full" -> <<"TRUNCATE", "INSERT">>
          [] rt = "append" -> <<"INSERT">>
          [] rt = "incremental" -> <<"DELETE", "INSERT">>]

\* C23: the statements a load executes are a prefix of the fixed sequence of
\* the pipeline's replication, TRUNCATE INSERT for full, INSERT for append,
\* DELETE INSERT for incremental, and the whole of it when the load
\* succeeded; the strategy is resolved from the replication field, and once
\* resolved it stays the same until load is left.
C23_FixedStatementSequence ==
    /\ []((pc \in {"try", "except", "ended"} /\ pipeline.replication \in ReplicationType) =>
             /\ IsPrefix(Statements, FixedSequence[pipeline.replication])
             /\ Succeeded => Statements = FixedSequence[pipeline.replication]
             /\ strategy \in {NoStrategy, REPLICATION_STRATEGY_MAP[pipeline.replication]}
             /\ Statements # <<>> => strategy # NoStrategy)
    /\ []((pc \in {"try", "except", "ended"} /\ pipeline.replication \notin ReplicationType)
             => Statements = <<>>)
    /\ [][(pc \in {"try", "except"} /\ strategy # NoStrategy) => strategy' = strategy]_vars

C23_Witness ==
    /\ Succeeded /\ pipeline.replication = "full"
    /\ strategy = "DuckLakeFullReplicationStrategy"
    /\ Statements = <<"TRUNCATE", "INSERT">>
    /\ calls = <<"begin", "register", "TRUNCATE", "INSERT", "commit">>

\* C26: when control has left load, by a return or by an interrupt that is no
\* Exception, no transaction is open on the connection: what begin opened
\* was committed or rolled back before load was left.
C26_NoOpenTransactionOnLeave ==
    (pc = "ended" /\ outcome \in {"returned", "interrupted"}) => ~txn

\* C28: when begin itself raised, load calls neither rollback nor commit on
\* the connection.
C28_NoRollbackWithoutBegin ==
    (pc = "ended" /\ raisedAt = "begin") =>
        (Count(calls, "rollback") = 0 /\ Count(calls, "commit") = 0)

\* a primary-key list the DELETE of the strategy can be built from
ValidKeys == DeleteAccepted(pipeline)

\* C29 as stated: when no two rows of the destination before the first load
\* share a primary-key tuple, and no two rows of the batch do, no two rows of
\* the destination share one after any number of successful Incremental loads.
C29_KeysStayUnique ==
    (pc = "ended" /\ pipeline.replication = "incremental" /\ ValidKeys
        /\ nCommitted >= 1
        /\ DistinctKeys(dest0, pipeline.primary_keys)
        /\ DistinctKeys(batch, pipeline.primary_keys))
    => DistinctKeys(dest, pipeline.primary_keys)

\* C29, amended: the same, when in addition no primary-key component of a
\* row of the batch is NULL.
C29_NonNullKeysStayUnique ==
    (pc = "ended" /\ pipeline.replication = "incremental" /\ ValidKeys
        /\ nCommitted >= 1
        /\ DistinctKeys(dest0, pipeline.primary_keys)
        /\ DistinctKeys(batch, pipeline.primary_keys)
        /\ NonNullKeys(batch, pipeline.primary_keys))
    => DistinctKeys(dest, pipeline.primary_keys)

C29_Witness ==
    /\ Succeeded /\ pipeline.replication = "incremental" /\ nCommitted = 2
    /\ pipeline.primary_keys = <<"id">>
    /\ Card(dest0) = 2 /\ Card(batch) = 2 /\ Card(dest) = 3
    /\ DistinctKeys(dest0, pipeline.primary_keys)
    /\ DistinctKeys(batch, pipeline.primary_keys)
    /\ NonNullKeys(batch, pipeline.primary_keys)
    /\ DistinctKeys(dest, pipeline.primary_keys)

\* C30: a load of an Append pipeline that succeeded leaves the rows the
\* destination held when load was called together with the rows of the
\* batch, every copy counted; one that failed leaves exactly the rows the
\* destination held; and while the load runs no committed row is lost.
C30_AppendKeepsRows ==
    (pipeline.replication = "append" /\ pc \in {"try", "except", "ended"}) =>
        /\ \A r \in Rows : dest[r] >= pre[r]
        /\ pc = "ended" =>
              IF Succeeded THEN dest = Plus(pre, batch) ELSE dest = pre

C30_Witness ==
    /\ pipeline.replication = "append" /\ Succeeded
    /\ Card(pre) = 2 /\ Card(batch) = 2
    /\ \E r \in Rows : pre[r] = 1 /\ batch[r] = 1 /\ dest[r] = 2
    /\ dest = Plus(pre, batch)

\* every statement of a provisioning that meets no failure, in order
CatalogStatements ==
    <<<<"ATTACH", settings.name, settings.storage["data_path"]>>, <<"USE", settings.name>>>>
AllStatements ==
    IF UnsupportedStorage THEN ExtensionStatements
    ELSE ExtensionStatements \o configure_storage(settings.storage).statements
         \o CatalogStatements

\* C24: the statements provisioning has issued are at every moment a prefix
\* of: INSTALL and LOAD of the first extension, INSTALL and LOAD of the
\* second, the storage statements, ATTACH, USE; after a failure no further
\* statement is issued; the connection is returned only when all of them
\* were issued and none failed.
C24_ProvisionOrder ==
    /\ [](/\ IsPrefix(issued, AllStatements)
          /\ connReturned => (issued = AllStatements /\ perror = NoError
                              /\ issued[Len(issued)][1] = "USE"
                              /\ issued[Len(issued) - 1][1] = "ATTACH"))
    /\ [][perror # NoError => (issued' = issued /\ ~connReturned')]_vars

C24_Witness ==
    /\ ppc = "done" /\ connReturned /\ settings.storage["type"] = "s3"
    /\ settings.storage["region"] = "v" /\ settings.storage["endpoint"] = None
    /\ issued = AllStatements /\ Len(issued) >= 9

\* C22: a run of a pipeline without destination whose fetch and transform
\* returned calls load of the DuckLakeLoader the factory built, with the batch
\* transform returned.
C22_DefaultDestinationLoaded ==
    (run_pipeline.destination = None /\ rpc = "done" /\ StageReturned("transform")) =>
        /\ loader = "DuckLakeLoader"
        /\ StageEnded("load")
        /\ loaded = transformed

\* every stage of the run, load included, completed without an error
AllStagesCompleted ==
    /\ Len(stages) = Len(StageOrder)
    /\ \A i \in DOMAIN stages : stages[i] = Stage(StageOrder[i], "returned")
    /\ rerror = NoError
Echoed(msg) == \E i \in DOMAIN echoed : echoed[i] = msg

\* C21: the command exits with a status other than 0 when the file is
\* missing or invalid and when the run raised, an exception of load
\* included; it prints "Pipeline executed successfully" and exits with 0
\* only when every stage of the run, load included, completed without error.
C21_ExitStatus ==
    /\ Echoed(ExecutedSuccessfully) <=> (cli_pc = "exited" /\ exit_code = 0)
    /\ cli_pc = "exited" =>
          /\ exit_code \in {0, 1}
          /\ config \in {"missing", "invalid"} => (exit_code = 1 /\ stages = <<>>)
          /\ rout \in {"raised", "interrupted"} => exit_code = 1
          /\ exit_code = 0 => AllStagesCompleted

\* the load of the run failed: its statements were not committed
LoadFailed == StageEnded("load") /\ loader = "DuckLakeLoader" /\ rerror # NoError

\* C25: once sync has succeeded the table exists and no later stage removes
\* it; when the load that follows fails, rolled back or not, the table is
\* still there with the rows it had before the run, none if sync created it.
C25_TableSurvivesRollback ==
    /\ [](StageReturned("sync") => table.exists)
    /\ []((StageReturned("sync") /\ LoadFailed) =>
             /\ table.exists
             /\ table.rows = table0.rows
             /\ table.columns = (IF table0.exists THEN table0.columns
                                 ELSE columns_def(run_pipeline)))
    /\ [][table.exists => table'.exists]_vars

C25_Witness ==
    /\ rpc = "done" /\ StageReturned("sync") /\ StageReturned("load") /\ LoadFailed
    /\ rout = "returned" /\ rerror = DbError("Transaction failed")
    /\ ~table0.exists
    /\ table = NewTable(columns_def(run_pipeline))

SheetsLoadEnded == loader = "GoogleSheetsLoader" /\ StageEnded("load")

\* C27: load of the Google Sheets loader calls clear once and update only
\* after it; when it returns, the sheet holds the declared column names as
\* its header and one row for each row of the batch, a null as the empty
\* text; when clear or update raises, load raises and the run ends raising.
C27_SheetClearedThenWritten ==
    /\ ~StageEnded("load") => sheet_calls = <<>>
    /\ SheetsLoadEnded =>
          /\ sheet_calls \in {<<"clear">>, <<"clear", "update">>}
          /\ StageReturned("load") <=> (rout = "returned" /\ rerror = NoError)
          /\ StageReturned("load") =>
                /\ sheet_calls = <<"clear", "update">>
                /\ sheet.header = DeclaredColumns
                /\ Len(sheet.rows) = Height(loaded)
                /\ \A r \in DOMAIN sheet.rows :
                      /\ Len(sheet.rows[r]) = Len(loaded)
                      /\ \A c \in DOMAIN loaded :
                            LET value == loaded[c].series.values[r] IN
                            /\ value.null => sheet.rows[r][c] = <<>>
                            /\ (~value.null /\ loaded[c].series.dtype \in {"str", "i32"})
                                  => sheet.rows[r][c] = value.v
          /\ StageRaised("load") =>
                /\ rout = "raised" /\ rerror.type = "HttpError"
                /\ sheet = (IF sheet_calls = <<"clear">> THEN OldSheet ELSE EmptySheet)

C27_Witness ==
    /\ SheetsLoadEnded /\ StageReturned("load")
    /\ sheet_calls = <<"clear", "update">>
    /\ sheet.header = <<"b", "a">>
    /\ sheet.rows = <<<<<<"A">>, <<>>>>>>

====
